---------------------------- MODULE Spec2Model ----------------------------
(***************************************************************************)
(* A model of the incremental JSON parser of vscode_rainbow_json           *)
(* (json_parse.js): the line tokenizer, the object-grouping pass, the      *)
(* pushdown automaton that builds one tree per complete group, and         *)
(* parse_json_objects, which runs the three over a window of lines.        *)
(*                                                                         *)
(* A line is a sequence of one-character strings.  Token indices, columns  *)
(* and array indices are zero-based as in the source; the i-th element of  *)
(* a zero-based array a is the TLA+ element a[i + 1].                      *)
(***************************************************************************)
EXTENDS Integers, Sequences, FiniteSets, TLC

(***************************************************************************)
(* Bounds of the model.                                                    *)
(***************************************************************************)
\* Longest single-line input, counted in lexemes.
MaxLen == 4
\* Longest multi-line document, counted in lines.
MaxLines == 3
\* Longest line written character by character.
MaxChars == 4
\* Most calls that ended before the call under way.
MaxCalls == 2
\* Most registrations of a token provider made in a session.
MaxRegistrations == 5
\* Most lines of a document the token provider is asked about.
MaxProviderLines == 2

(***************************************************************************)
(* null of the source.  Every nullable field gets a null of its own type.  *)
(***************************************************************************)
NullInt == 0 - 1
NullString == << >>
NullPosition == [line |-> NullInt, character |-> NullInt]
NoError == [name |-> "none", line_num |-> NullInt, position |-> NullInt]

\* class Position
Position(line, character) == [line |-> line, character |-> character]

\* new JsonTokenizerError(message, line_num, position)
JsonTokenizerError(line_num, position) ==
    [name |-> "JsonTokenizerError", line_num |-> line_num, position |-> position]

\* new JsonSyntaxError(message, line_num, position)
JsonSyntaxError(line_num, position) ==
    [name |-> "JsonSyntaxError", line_num |-> line_num, position |-> position]

\* new JsonIncompleteError(message): it carries no position
JsonIncompleteError ==
    [name |-> "JsonIncompleteError", line_num |-> NullInt, position |-> NullInt]

\* assert(condition, message) throws a plain Error
AssertionError ==
    [name |-> "Error", line_num |-> NullInt, position |-> NullInt]

(***************************************************************************)
(* class JsonToken                                                         *)
(***************************************************************************)
JsonToken(value, line_num, position, token_type) ==
    [value |-> value, line_num |-> line_num, position |-> position,
     token_type |-> token_type]

brace_open(token) == token.value = <<"{">>
brace_close(token) == token.value = <<"}">>
bracket_open(token) == token.value = <<"[">>
bracket_close(token) == token.value = <<"]">>
colon(token) == token.value = <<":">>
comma(token) == token.value = <<",">>

isContainerOpen(token) == brace_open(token) \/ bracket_open(token)

isContainerClose(token) == brace_close(token) \/ bracket_close(token)

\* Variant of isContainerDelim: a comma counts as a bracket too.
isContainerDelim_WithComma(token) ==
    \/ brace_open(token) \/ brace_close(token)
    \/ bracket_open(token) \/ bracket_close(token)
    \/ comma(token)

isContainerDelim(token) ==
    brace_open(token) \/ brace_close(token) \/ bracket_open(token) \/ bracket_close(token)

\* Variant of isMatchingClose: any closer closes any opener.
isMatchingClose_Any(token, openToken) == TRUE

isMatchingClose(token, openToken) ==
    \/ brace_close(token) /\ brace_open(openToken)
    \/ bracket_close(token) /\ bracket_open(openToken)

(***************************************************************************)
(* The tokenizer.  Each pattern is a sticky regular expression: XxxMatch   *)
(* is the length of its match at the zero-based offset cursor of the line, *)
(* or 0 when it does not match there (no pattern matches the empty text).  *)
(***************************************************************************)
WhitespaceChars == {" ", "\t"}
Digits == {"0", "1", "2", "3", "4", "5", "6", "7", "8", "9"}
NonZeroDigits == Digits \ {"0"}
PunctuationChars == {"{", "}", "[", "]", ":", ","}

\* The character at the zero-based offset k, "" past the end of the line.
CharAt(line, k) == IF k >= 0 /\ k < Len(line) THEN line[k + 1] ELSE ""

\* The number of consecutive characters of the set chars from offset k on.
RECURSIVE RunLength(_, _, _)
RunLength(line, k, chars) ==
    IF CharAt(line, k) \in chars THEN 1 + RunLength(line, k + 1, chars) ELSE 0

\* /\s+/y
WhitespaceMatch(line, cursor) == RunLength(line, cursor, WhitespaceChars)

\* Whether the literal word stands at the offset cursor.
LiteralAt(line, cursor, word) ==
    /\ cursor + Len(word) <= Len(line)
    /\ \A k \in 1..Len(word) : line[cursor + k] = word[k]

\* /true|false|null/y
ConstantMatch(line, cursor) ==
    IF LiteralAt(line, cursor, <<"t", "r", "u", "e">>) THEN 4
    ELSE IF LiteralAt(line, cursor, <<"f", "a", "l", "s", "e">>) THEN 5
    ELSE IF LiteralAt(line, cursor, <<"n", "u", "l", "l">>) THEN 4
    ELSE 0

\* The offset just past the closing quote of a string whose body is scanned
\* from offset k on, or 0 when the line ends first: (?:[^"\\]|\\.)*"
RECURSIVE StringBodyEnd(_, _)
StringBodyEnd(line, k) ==
    IF k >= Len(line) THEN 0
    ELSE IF CharAt(line, k) = "\"" THEN k + 1
    ELSE IF CharAt(line, k) = "\\"
         THEN IF k + 1 < Len(line) THEN StringBodyEnd(line, k + 2) ELSE 0
    ELSE StringBodyEnd(line, k + 1)

\* The length of a match that starts at cursor and ends at end, 0 for no match.
MatchLength(cursor, end) == IF end = 0 THEN 0 ELSE end - cursor

\* /"(?:[^"\\]|\\.)*"/y
StringMatch(line, cursor) ==
    IF CharAt(line, cursor) # "\"" THEN 0
    ELSE MatchLength(cursor, StringBodyEnd(line, cursor + 1))

\* The offset just past the digits \d* that stand from offset k on.
DigitsEnd(line, k) == k + RunLength(line, k, Digits)

\* (?:0|[1-9]\d*) at int_start: the offset just past it, 0 when it does not match.
IntegerEnd(line, int_start) ==
    IF CharAt(line, int_start) = "0" THEN int_start + 1
    ELSE IF CharAt(line, int_start) \in NonZeroDigits THEN DigitsEnd(line, int_start + 1)
    ELSE 0

\* (?:\.\d+)? at int_end: the offset just past it.
FractionEnd(line, int_end) ==
    IF CharAt(line, int_end) = "." /\ DigitsEnd(line, int_end + 1) > int_end + 1
    THEN DigitsEnd(line, int_end + 1)
    ELSE int_end

\* [+-]? at sign_at: the offset just past it.
SignEnd(line, sign_at) ==
    IF CharAt(line, sign_at) \in {"+", "-"} THEN sign_at + 1 ELSE sign_at

\* (?:[eE][+-]?\d+)? at frac_end, its digits expected from exp_start on: the
\* offset just past it.
ExponentEnd(line, frac_end, exp_start) ==
    IF CharAt(line, frac_end) \in {"e", "E"} /\ DigitsEnd(line, exp_start) > exp_start
    THEN DigitsEnd(line, exp_start)
    ELSE frac_end

\* The fraction and the exponent after an integer part that ends at int_end.
NumberEnd(line, frac_end) == ExponentEnd(line, frac_end, SignEnd(line, frac_end + 1))

\* /-?(?:0|[1-9]\d*)(?:\.\d+)?(?:[eE][+-]?\d+)?/y
NumberFrom(line, cursor, int_end) ==
    IF int_end = 0 THEN 0
    ELSE MatchLength(cursor, NumberEnd(line, FractionEnd(line, int_end)))

NumberMatch(line, cursor) ==
    NumberFrom(line, cursor,
               IntegerEnd(line, IF CharAt(line, cursor) = "-" THEN cursor + 1 ELSE cursor))

\* /[{}[\]:,]/y
PunctuationMatch(line, cursor) ==
    IF CharAt(line, cursor) \in PunctuationChars THEN 1 ELSE 0

\* The patterns in the order the tokenizer tries them.
patterns == <<"Whitespace", "Constant", "String", "Number", "Punctuation">>

PatternMatch(token_type, line, cursor) ==
    CASE token_type = "Whitespace" -> WhitespaceMatch(line, cursor)
      [] token_type = "Constant" -> ConstantMatch(line, cursor)
      [] token_type = "String" -> StringMatch(line, cursor)
      [] token_type = "Number" -> NumberMatch(line, cursor)
      [] token_type = "Punctuation" -> PunctuationMatch(line, cursor)

\* The index in patterns of the first pattern that matches at cursor, 0 if none.
FirstMatchingPattern(line, cursor) ==
    LET matching == {k \in 1..Len(patterns) : PatternMatch(patterns[k], line, cursor) > 0}
    IN  IF matching = {} THEN 0
        ELSE CHOOSE k \in matching : \A other \in matching : k <= other

\* Variants of PushToken: the token gets the offset where its match ends;
\* whitespace is pushed as a token too.
PushToken_EndColumn(dst_tokens, line, line_num, cursor, token_type, length) ==
    IF token_type # "Whitespace"
    THEN Append(dst_tokens,
                JsonToken(SubSeq(line, cursor + 1, cursor + length), line_num,
                          cursor + length, token_type))
    ELSE dst_tokens
PushToken_WithWhitespace(dst_tokens, line, line_num, cursor, token_type, length) ==
    Append(dst_tokens,
           JsonToken(SubSeq(line, cursor + 1, cursor + length), line_num, cursor,
                     token_type))

\* dst_tokens.push(token), but for whitespace.
PushToken(dst_tokens, line, line_num, cursor, token_type, length) ==
    IF token_type # "Whitespace"
    THEN Append(dst_tokens,
                JsonToken(SubSeq(line, cursor + 1, cursor + length), line_num, cursor,
                          token_type))
    ELSE dst_tokens

\* tokenize_json_line_in_place from the offset cursor on: the tokens pushed
\* onto dst_tokens and the error thrown, if any.  TokenizeMatch is the loop
\* body once the k-th pattern is the first to match at cursor (0: none does).
\* The cursor and the tokens after the iteration are values of their own
\* (after) before the next iteration starts from them.
RECURSIVE TokenizeFrom(_, _, _, _), TokenizeMatch(_, _, _, _, _)
TokenizeFrom(line, line_num, cursor, dst_tokens) ==
    IF cursor >= Len(line) THEN [tokens |-> dst_tokens, error |-> NoError]
    ELSE TokenizeMatch(line, line_num, cursor, dst_tokens,
                       FirstMatchingPattern(line, cursor))

\* Variant of TokenizeMatch: the error carries the start of the line.
TokenizeMatch_ErrorAtLineStart(line, line_num, cursor, dst_tokens, k) ==
    IF k = 0
    THEN [tokens |-> dst_tokens, error |-> JsonTokenizerError(line_num, 0)]
    ELSE CHOOSE rest \in
            {TokenizeFrom(line, line_num, after[1], after[2]) :
                after \in {<<cursor + PatternMatch(patterns[k], line, cursor),
                             PushToken(dst_tokens, line, line_num, cursor, patterns[k],
                                       PatternMatch(patterns[k], line, cursor))>>}} : TRUE

TokenizeMatch(line, line_num, cursor, dst_tokens, k) ==
    IF k = 0
    THEN [tokens |-> dst_tokens, error |-> JsonTokenizerError(line_num, cursor)]
    ELSE CHOOSE rest \in
            {TokenizeFrom(line, line_num, after[1], after[2]) :
                after \in {<<cursor + PatternMatch(patterns[k], line, cursor),
                             PushToken(dst_tokens, line, line_num, cursor, patterns[k],
                                       PatternMatch(patterns[k], line, cursor))>>}} : TRUE

tokenize_json_line_in_place(line, line_num, dst_tokens) ==
    TokenizeFrom(line, line_num, 0, dst_tokens)


\* tokenize_json_line(line, line_num): what the call returns or throws, the
\* tokens of one line pushed onto a new array.
tokenize_json_line(line, line_num) ==
    tokenize_json_line_in_place(line, line_num, << >>)

\* The i-th token of a zero-based token array.
TokenAt(tokens, token_idx) == tokens[token_idx + 1]

(***************************************************************************)
(* The object-grouping pass.                                               *)
(***************************************************************************)
\* Variant of CompleteObjectTokenGroup: the group ends one token early.
CompleteObjectTokenGroup_EndsEarly(first_token_idx, last_token_idx, relative_depth) ==
    [first_token_idx |-> first_token_idx, last_token_idx |-> last_token_idx - 1,
     relative_depth |-> relative_depth]

\* class CompleteObjectTokenGroup
CompleteObjectTokenGroup(first_token_idx, last_token_idx, relative_depth) ==
    [first_token_idx |-> first_token_idx, last_token_idx |-> last_token_idx,
     relative_depth |-> relative_depth]

\* class ObjectGroupStackFrame
ObjectGroupStackFrame(first_token_idx) ==
    [first_token_idx |-> first_token_idx, complete_children_groups |-> << >>]

\* Variants of UpdateDepths: the depths left as they are; only the last
\* group raised.
UpdateDepths_None(result) == result
UpdateDepths_Last(result) ==
    [k \in 1..Len(result) |->
        IF k = Len(result)
        THEN [result[k] EXCEPT !.relative_depth = result[k].relative_depth + 1]
        ELSE result[k]]

\* for (let group of result) group.relative_depth += 1
UpdateDepths(result) ==
    [k \in 1..Len(result) |->
        [result[k] EXCEPT !.relative_depth = result[k].relative_depth + 1]]

\* Variant of DepthAtClose: every group is created with depth 0.
DepthAtClose_Zero(stack) == 0

\* Variant of DepthAtClose: the depth of the stack before the pop.
DepthAtClose_BeforePop(stack) == Len(stack)

\* The relative_depth a group is created with: stack.length - 1, taken before
\* the pop, which is the depth of the stack after it.
DepthAtClose(stack) == Len(stack) - 1

\* Variant of PushToParent: the group goes to the front of the frame's groups.
PushToParent_Prepend(stack, last_complete_object) ==
    [stack EXCEPT ![Len(stack)].complete_children_groups =
        <<last_complete_object>> \o stack[Len(stack)].complete_children_groups]

\* The frame left on top after the pop receives the complete group.
PushToParent(stack, last_complete_object) ==
    [stack EXCEPT ![Len(stack)].complete_children_groups =
        Append(stack[Len(stack)].complete_children_groups, last_complete_object)]

\* One iteration of the scanning loop of group_tokens_into_full_object_groups,
\* on the token at token_idx: the result list and the stack after it, and the
\* error it throws, if any.
GroupStep(tokens, token_idx, result, stack) ==
    LET token == TokenAt(tokens, token_idx)
        same == [result |-> result, stack |-> stack, error |-> NoError]
    IN  IF ~isContainerDelim(token) THEN same
        ELSE IF isContainerOpen(token)
        THEN [same EXCEPT !.stack = Append(stack, ObjectGroupStackFrame(token_idx))]
        ELSE IF Len(stack) = 0
        THEN [same EXCEPT !.result = UpdateDepths(result)]
        ELSE LET top == stack[Len(stack)]
                 last_complete_object ==
                     CompleteObjectTokenGroup(top.first_token_idx, token_idx,
                                              DepthAtClose(stack))
                 popped == SubSeq(stack, 1, Len(stack) - 1)
             IN  IF ~isMatchingClose(token, TokenAt(tokens, top.first_token_idx))
                 THEN [same EXCEPT !.error = JsonSyntaxError(token.line_num, token.position)]
                 ELSE IF Len(popped) > 0
                 THEN [same EXCEPT !.stack = PushToParent(popped, last_complete_object)]
                 ELSE [same EXCEPT !.stack = popped,
                                   !.result = Append(result, last_complete_object)]

\* Variant of FlushStack: the frames still open are handed over as groups too.
RECURSIVE FlushStack_WithOpenFrames(_, _)
FlushStack_WithOpenFrames(result, stack) ==
    IF stack = << >> THEN result
    ELSE FlushStack_WithOpenFrames(
            result \o stack[1].complete_children_groups
                   \o <<[first_token_idx |-> stack[1].first_token_idx,
                         last_token_idx |-> stack[1].first_token_idx,
                         relative_depth |-> 0]>>,
            Tail(stack))

\* Variant of FlushStack: the children of the frames still open are dropped.
FlushStack_None(result, stack) == result

\* Variant of FlushStack: the frames are flushed from the top of the stack down.
RECURSIVE FlushStack_InnermostFirst(_, _)
FlushStack_InnermostFirst(result, stack) ==
    IF stack = << >> THEN result
    ELSE FlushStack_InnermostFirst(
            result \o stack[Len(stack)].complete_children_groups,
            SubSeq(stack, 1, Len(stack) - 1))

\* The loop that ends group_tokens_into_full_object_groups: the complete
\* children of the frames still open, frame by frame from the bottom of the stack.
RECURSIVE FlushStack(_, _)
FlushStack(result, stack) ==
    IF stack = << >> THEN result
    ELSE FlushStack(result \o stack[1].complete_children_groups, Tail(stack))

\* group_tokens_into_full_object_groups(tokens), from the token at token_idx on.
RECURSIVE GroupFrom(_, _, _, _)
GroupFrom(tokens, token_idx, result, stack) ==
    IF token_idx >= Len(tokens)
    THEN [result |-> FlushStack(result, stack), error |-> NoError]
    ELSE LET step == GroupStep(tokens, token_idx, result, stack)
         IN  IF step.error # NoError
             THEN [result |-> << >>, error |-> step.error]
             ELSE GroupFrom(tokens, token_idx + 1, step.result, step.stack)

group_tokens_into_full_object_groups(tokens) == GroupFrom(tokens, 0, << >>, << >>)

(***************************************************************************)
(* The structural parser.  The tree under construction is a table of nodes *)
(* (nodes): a node is named by its index in the table, the root is node 1, *)
(* and children holds the names of a node's children in order.             *)
(***************************************************************************)
OBJECT_NODE_TYPE == "OBJECT"
ARRAY_NODE_TYPE == "ARRAY"
SCALAR_NODE_TYPE == "SCALAR"

\* class RainbowJsonNode
RainbowJsonNode(node_type, parent_key, parent_key_position, parent_array_index, start_position) ==
    [node_type |-> node_type,
     parent_key |-> parent_key,
     parent_key_position |-> parent_key_position,
     parent_array_index |-> parent_array_index,
     start_position |-> start_position,
     end_position |-> NullPosition,
     children |-> << >>,
     value |-> NullString,
     relative_depth |-> NullInt]

\* class PDAStackFrame
PDAStackFrame(node) ==
    [node |-> node,
     current_nfa_states |-> << >>,
     current_array_index |-> 0,
     current_key |-> NullString,
     current_key_position |-> NullPosition]

\* What a handler hands back: whether it took the token, and the stack and
\* the node table as it leaves them.
Handled(pda_stack, nodes) == [handled |-> TRUE, pda_stack |-> pda_stack, nodes |-> nodes]
Rejected(pda_stack, nodes) == [handled |-> FALSE, pda_stack |-> pda_stack, nodes |-> nodes]

\* ctx = pda_stack[pda_stack.length - 1]
Ctx(pda_stack) == pda_stack[Len(pda_stack)]

\* ctx.current_nfa_states = states
SetStates(pda_stack, states) ==
    [pda_stack EXCEPT ![Len(pda_stack)].current_nfa_states = states]

\* The states a frame waits in once it holds a value: a comma or its own closer.
AfterValueStates(node_type) ==
    IF node_type = OBJECT_NODE_TYPE
    THEN <<"expect_comma_state", "expect_object_end_state">>
    ELSE <<"expect_comma_state", "expect_array_end_state">>

\* Variant of handle_key_token: after a key the colon may be left out.
handle_key_token_ColonOptional(pda_stack, nodes, token) ==
    IF token.token_type # "String" THEN Rejected(pda_stack, nodes)
    ELSE Handled(
            [pda_stack EXCEPT
                ![Len(pda_stack)].current_key = token.value,
                ![Len(pda_stack)].current_key_position =
                    Position(token.line_num, token.position),
                ![Len(pda_stack)].current_nfa_states =
                    <<"expect_colon_state", "expect_value_state">>],
            nodes)

\* Variant of handle_key_token: the first key of a frame is kept for all its
\* members.
handle_key_token_FirstKept(pda_stack, nodes, token) ==
    IF token.token_type # "String" THEN Rejected(pda_stack, nodes)
    ELSE IF Ctx(pda_stack).current_key # NullString
    THEN Handled(SetStates(pda_stack, <<"expect_colon_state">>), nodes)
    ELSE Handled(
            [pda_stack EXCEPT
                ![Len(pda_stack)].current_key = token.value,
                ![Len(pda_stack)].current_key_position =
                    Position(token.line_num, token.position),
                ![Len(pda_stack)].current_nfa_states = <<"expect_colon_state">>],
            nodes)

handle_key_token(pda_stack, nodes, token) ==
    IF token.token_type # "String" THEN Rejected(pda_stack, nodes)
    ELSE Handled(
            [pda_stack EXCEPT
                ![Len(pda_stack)].current_key = token.value,
                ![Len(pda_stack)].current_key_position =
                    Position(token.line_num, token.position),
                ![Len(pda_stack)].current_nfa_states = <<"expect_colon_state">>],
            nodes)

\* Variant of handle_colon_token: a comma is taken for the colon as well.
handle_colon_token_OrComma(pda_stack, nodes, token) ==
    IF ~colon(token) /\ ~comma(token) THEN Rejected(pda_stack, nodes)
    ELSE Handled(SetStates(pda_stack, <<"expect_value_state">>), nodes)

handle_colon_token(pda_stack, nodes, token) ==
    IF ~colon(token) THEN Rejected(pda_stack, nodes)
    ELSE Handled(SetStates(pda_stack, <<"expect_value_state">>), nodes)

\* Variant of ChildNode: every child gets the array index of the frame.
ChildNode_IndexAlways(pda_stack, nodes, node_type, token) ==
    LET ctx == Ctx(pda_stack)
        parent_type == nodes[ctx.node].node_type
    IN  RainbowJsonNode(node_type,
                        IF parent_type = OBJECT_NODE_TYPE THEN ctx.current_key
                        ELSE NullString,
                        IF parent_type = OBJECT_NODE_TYPE THEN ctx.current_key_position
                        ELSE NullPosition,
                        ctx.current_array_index,
                        Position(token.line_num, token.position))

\* A new child of the node of the top frame: the key, key position and array
\* index it is attributed with.
ChildNode(pda_stack, nodes, node_type, token) ==
    LET ctx == Ctx(pda_stack)
        parent_type == nodes[ctx.node].node_type
        child_key ==
            IF parent_type = OBJECT_NODE_TYPE THEN ctx.current_key ELSE NullString
        child_key_position ==
            IF parent_type = OBJECT_NODE_TYPE THEN ctx.current_key_position
            ELSE NullPosition
        child_index ==
            IF parent_type = ARRAY_NODE_TYPE THEN ctx.current_array_index ELSE NullInt
    IN  RainbowJsonNode(node_type, child_key, child_key_position, child_index,
                        Position(token.line_num, token.position))

\* Variant of PushChild: the child goes to the front of the children.
PushChild_Prepend(pda_stack, nodes, child_node) ==
    LET parent == Ctx(pda_stack).node
    IN  Append([nodes EXCEPT ![parent].children = <<Len(nodes) + 1>> \o @],
               child_node)

\* ctx.node.children.push(child_node): the child is the next node of the table.
PushChild(pda_stack, nodes, child_node) ==
    LET parent == Ctx(pda_stack).node
    IN  Append([nodes EXCEPT ![parent].children = Append(@, Len(nodes) + 1)],
               child_node)

handle_scalar_value(pda_stack, nodes, token) ==
    IF token.token_type \notin {"String", "Number", "Constant"}
    THEN Rejected(pda_stack, nodes)
    ELSE LET created == ChildNode(pda_stack, nodes, SCALAR_NODE_TYPE, token)
             scalar_node ==
                 [created EXCEPT
                     !.end_position =
                         Position(token.line_num, token.position + Len(token.value)),
                     !.value = token.value]
         IN  Handled(
                 SetStates(pda_stack, AfterValueStates(nodes[Ctx(pda_stack).node].node_type)),
                 PushChild(pda_stack, nodes, scalar_node))

\* handle_open_brace and handle_open_bracket after their test of the token.
OpenContainer(pda_stack, nodes, node_type, first_states, token) ==
    LET child_node == ChildNode(pda_stack, nodes, node_type, token)
        parent_stack ==
            SetStates(pda_stack, AfterValueStates(nodes[Ctx(pda_stack).node].node_type))
        new_frame ==
            [PDAStackFrame(Len(nodes) + 1) EXCEPT !.current_nfa_states = first_states]
    IN  Handled(Append(parent_stack, new_frame),
                PushChild(pda_stack, nodes, child_node))

handle_open_brace(pda_stack, nodes, token) ==
    IF ~brace_open(token) THEN Rejected(pda_stack, nodes)
    ELSE OpenContainer(pda_stack, nodes, OBJECT_NODE_TYPE,
                       <<"expect_key_state", "expect_object_end_state">>, token)

handle_open_bracket(pda_stack, nodes, token) ==
    IF ~bracket_open(token) THEN Rejected(pda_stack, nodes)
    ELSE OpenContainer(pda_stack, nodes, ARRAY_NODE_TYPE,
                       <<"expect_value_state", "expect_array_end_state">>, token)

\* Variant of handle_comma: the array index stays where it is.
handle_comma_SameIndex(pda_stack, nodes, token) ==
    IF ~comma(token) THEN Rejected(pda_stack, nodes)
    ELSE IF nodes[Ctx(pda_stack).node].node_type = OBJECT_NODE_TYPE
    THEN Handled(SetStates(pda_stack, <<"expect_key_state">>), nodes)
    ELSE Handled(SetStates(pda_stack, <<"expect_value_state">>), nodes)

\* Variant of handle_comma: after a comma the container may close.
handle_comma_TrailingAllowed(pda_stack, nodes, token) ==
    IF ~comma(token) THEN Rejected(pda_stack, nodes)
    ELSE IF nodes[Ctx(pda_stack).node].node_type = OBJECT_NODE_TYPE
    THEN Handled(SetStates(pda_stack, <<"expect_key_state", "expect_object_end_state">>),
                 nodes)
    ELSE Handled(
            [pda_stack EXCEPT
                ![Len(pda_stack)].current_array_index = @ + 1,
                ![Len(pda_stack)].current_nfa_states =
                    <<"expect_value_state", "expect_array_end_state">>],
            nodes)

\* Variant of handle_comma: the index of the array is counted up before the
\* token is looked at.
handle_comma_CountsFirst(pda_stack, nodes, token) ==
    IF ~comma(token)
    THEN Rejected([pda_stack EXCEPT ![Len(pda_stack)].current_array_index = @ + 1],
                  nodes)
    ELSE IF nodes[Ctx(pda_stack).node].node_type = OBJECT_NODE_TYPE
    THEN Handled(SetStates(pda_stack, <<"expect_key_state">>), nodes)
    ELSE Handled(
            [pda_stack EXCEPT
                ![Len(pda_stack)].current_array_index = @ + 1,
                ![Len(pda_stack)].current_nfa_states = <<"expect_value_state">>],
            nodes)

handle_comma(pda_stack, nodes, token) ==
    IF ~comma(token) THEN Rejected(pda_stack, nodes)
    ELSE IF nodes[Ctx(pda_stack).node].node_type = OBJECT_NODE_TYPE
    THEN Handled(SetStates(pda_stack, <<"expect_key_state">>), nodes)
    ELSE Handled(
            [pda_stack EXCEPT
                ![Len(pda_stack)].current_array_index = @ + 1,
                ![Len(pda_stack)].current_nfa_states = <<"expect_value_state">>],
            nodes)

\* Variant of CloseContainer: the end is the column after the closing bracket.
CloseContainer_PastCloser(pda_stack, nodes, token) ==
    Handled(SubSeq(pda_stack, 1, Len(pda_stack) - 1),
            [nodes EXCEPT ![Ctx(pda_stack).node].end_position =
                Position(token.line_num, token.position + 1)])

\* handle_object_end and handle_array_end after their two tests.
CloseContainer(pda_stack, nodes, token) ==
    Handled(SubSeq(pda_stack, 1, Len(pda_stack) - 1),
            [nodes EXCEPT ![Ctx(pda_stack).node].end_position =
                Position(token.line_num, token.position)])

handle_object_end(pda_stack, nodes, token) ==
    IF ~brace_close(token) THEN Rejected(pda_stack, nodes)
    ELSE IF nodes[Ctx(pda_stack).node].node_type # OBJECT_NODE_TYPE
    THEN Rejected(pda_stack, nodes)
    ELSE CloseContainer(pda_stack, nodes, token)

handle_array_end(pda_stack, nodes, token) ==
    IF ~bracket_close(token) THEN Rejected(pda_stack, nodes)
    ELSE IF nodes[Ctx(pda_stack).node].node_type # ARRAY_NODE_TYPE
    THEN Rejected(pda_stack, nodes)
    ELSE CloseContainer(pda_stack, nodes, token)

\* first || handle_open_brace(pda_stack, token): the handler runs on what
\* first left when first did not take the token.
OrOpenBrace(first, token) ==
    IF first.handled THEN first
    ELSE handle_open_brace(first.pda_stack, first.nodes, token)

\* first || handle_open_bracket(pda_stack, token)
OrOpenBracket(first, token) ==
    IF first.handled THEN first
    ELSE handle_open_bracket(first.pda_stack, first.nodes, token)

\* handle_scalar_value(..) || handle_open_brace(..) || handle_open_bracket(..)
handle_value(pda_stack, nodes, token) ==
    OrOpenBracket(OrOpenBrace(handle_scalar_value(pda_stack, nodes, token), token), token)

\* The handler_function of each AutomataState.
handler_function(state, pda_stack, nodes, token) ==
    CASE state = "expect_key_state" -> handle_key_token(pda_stack, nodes, token)
      [] state = "expect_colon_state" -> handle_colon_token(pda_stack, nodes, token)
      [] state = "expect_value_state" -> handle_value(pda_stack, nodes, token)
      [] state = "expect_comma_state" -> handle_comma(pda_stack, nodes, token)
      [] state = "expect_object_end_state" -> handle_object_end(pda_stack, nodes, token)
      [] state = "expect_array_end_state" -> handle_array_end(pda_stack, nodes, token)

\* for (let state of ctx.current_nfa_states): the candidates from the k-th on,
\* each tried on what the one before left, until one takes the token.
RECURSIVE TryStates(_, _, _, _, _), TryNext(_, _, _, _)
TryStates(states, k, pda_stack, nodes, token) ==
    IF k > Len(states) THEN Rejected(pda_stack, nodes)
    ELSE TryNext(states, k, handler_function(states[k], pda_stack, nodes, token), token)

\* if (state.handler_function(pda_stack, token)) { handled = true; break; }
TryNext(states, k, tried, token) ==
    IF tried.handled THEN tried
    ELSE TryStates(states, k + 1, tried.pda_stack, tried.nodes, token)

\* Variant of ConsumeStart: the first token is not tested; a token that is
\* no brace starts an array.
ConsumeStart_Unchecked(tokens, token_idx) ==
    LET start_token == TokenAt(tokens, token_idx)
        root_node_type ==
            IF brace_open(start_token) THEN OBJECT_NODE_TYPE ELSE ARRAY_NODE_TYPE
        root == RainbowJsonNode(root_node_type, NullString, NullPosition, NullInt,
                                Position(start_token.line_num, start_token.position))
        first_states ==
            IF root_node_type = OBJECT_NODE_TYPE
            THEN <<"expect_key_state", "expect_object_end_state">>
            ELSE <<"expect_value_state", "expect_array_end_state">>
    IN  [pda_stack |-> <<[PDAStackFrame(1) EXCEPT !.current_nfa_states = first_states]>>,
         nodes |-> <<root>>,
         error |-> NoError]

\* consume_json_record up to its loop, for a token_idx inside the token list:
\* the root frame, or the error for a first token that opens no container.
ConsumeStart(tokens, token_idx) ==
    LET start_token == TokenAt(tokens, token_idx)
        root_node_type ==
            IF brace_open(start_token) THEN OBJECT_NODE_TYPE ELSE ARRAY_NODE_TYPE
        root == RainbowJsonNode(root_node_type, NullString, NullPosition, NullInt,
                                Position(start_token.line_num, start_token.position))
        first_states ==
            IF root_node_type = OBJECT_NODE_TYPE
            THEN <<"expect_key_state", "expect_object_end_state">>
            ELSE <<"expect_value_state", "expect_array_end_state">>
    IN  IF ~isContainerOpen(start_token)
        THEN [pda_stack |-> << >>, nodes |-> << >>,
              error |-> JsonSyntaxError(start_token.line_num, start_token.position)]
        ELSE [pda_stack |-> <<[PDAStackFrame(1) EXCEPT !.current_nfa_states = first_states]>>,
              nodes |-> <<root>>,
              error |-> NoError]

\* if (!handled) throw new JsonSyntaxError(.., token.line_num, token.position)
ThrowUnlessHandled(tried, token) ==
    [pda_stack |-> tried.pda_stack, nodes |-> tried.nodes,
     error |-> IF tried.handled THEN NoError
               ELSE JsonSyntaxError(token.line_num, token.position)]

\* One iteration of the loop of consume_json_record, on the token at token_idx.
ConsumeStep(tokens, token_idx, pda_stack, nodes) ==
    ThrowUnlessHandled(
        TryStates(Ctx(pda_stack).current_nfa_states, 1, pda_stack, nodes,
                  TokenAt(tokens, token_idx)),
        TokenAt(tokens, token_idx))

\* The loop of consume_json_record and what follows it.
RECURSIVE ConsumeLoop(_, _, _, _)
ConsumeLoop(tokens, token_idx, pda_stack, nodes) ==
    IF token_idx < Len(tokens) /\ Len(pda_stack) > 0
    THEN LET step == ConsumeStep(tokens, token_idx, pda_stack, nodes)
         IN  IF step.error # NoError
             THEN [nodes |-> << >>, token_idx |-> token_idx, error |-> step.error]
             ELSE ConsumeLoop(tokens, token_idx + 1, step.pda_stack, step.nodes)
    ELSE IF Len(pda_stack) > 0
    THEN [nodes |-> << >>, token_idx |-> token_idx, error |-> JsonIncompleteError]
    ELSE [nodes |-> nodes, token_idx |-> token_idx, error |-> NoError]

\* consume_json_record(tokens, token_idx): the node table of the record (empty
\* for the null root), the index it stops at, and the error thrown, if any.
consume_json_record(tokens, token_idx) ==
    IF token_idx >= Len(tokens)
    THEN [nodes |-> << >>, token_idx |-> token_idx, error |-> NoError]
    ELSE LET start == ConsumeStart(tokens, token_idx)
         IN  IF start.error # NoError
             THEN [nodes |-> << >>, token_idx |-> token_idx, error |-> start.error]
             ELSE ConsumeLoop(tokens, token_idx + 1, start.pda_stack, start.nodes)

(***************************************************************************)
(* parse_json_objects as a function of its arguments.                      *)
(***************************************************************************)
\* The loop over the lines, from line i on: every line tokenized onto tokens.
RECURSIVE TokenizeLines(_, _, _, _)
TokenizeLines(lines, line_nums, i, tokens) ==
    IF i >= Len(lines) THEN [tokens |-> tokens, error |-> NoError]
    ELSE LET tokenized ==
                 tokenize_json_line_in_place(lines[i + 1], line_nums[i + 1], tokens)
         IN  IF tokenized.error # NoError
             THEN [tokens |-> << >>, error |-> tokenized.error]
             ELSE TokenizeLines(lines, line_nums, i + 1, tokenized.tokens)

\* Variant of WithRelativeDepth: the depth is set on every node of the record.
WithRelativeDepth_AllNodes(record, relative_depth) ==
    [n \in 1..Len(record) |-> [record[n] EXCEPT !.relative_depth = relative_depth]]

\* The root with its relative_depth set.
WithRelativeDepth(record, relative_depth) ==
    [record EXCEPT ![1].relative_depth = relative_depth]

\* The loop over the groups, from the group at group_idx on.
RECURSIVE ConsumeGroups(_, _, _, _)
ConsumeGroups(tokens, token_object_groups, group_idx, records) ==
    IF group_idx >= Len(token_object_groups)
    THEN [records |-> records, error |-> NoError]
    ELSE LET token_object_group == token_object_groups[group_idx + 1]
             consumed == consume_json_record(tokens, token_object_group.first_token_idx)
         IN  IF consumed.error # NoError
             THEN [records |-> << >>, error |-> consumed.error]
             ELSE IF \/ consumed.token_idx # token_object_group.last_token_idx + 1
                     \/ consumed.nodes = << >>
             THEN [records |-> << >>, error |-> AssertionError]
             ELSE ConsumeGroups(tokens, token_object_groups, group_idx + 1,
                      Append(records,
                          WithRelativeDepth(consumed.nodes,
                                            token_object_group.relative_depth)))

\* parse_json_objects once the lines are tokenized.
ParseTokens(tokens) ==
    LET grouped == group_tokens_into_full_object_groups(tokens)
    IN  IF grouped.error # NoError
        THEN [records |-> << >>, error |-> grouped.error]
        ELSE ConsumeGroups(tokens, grouped.result, 0, << >>)

parse_json_objects(lines, line_nums) ==
    LET tokenized == TokenizeLines(lines, line_nums, 0, << >>)
    IN  IF tokenized.error # NoError
        THEN [records |-> << >>, error |-> tokenized.error]
        ELSE ParseTokens(tokenized.tokens)

(***************************************************************************)
(* The key-frequency heuristic of the extension: rainbow_utils and          *)
(* get_keys_to_highlight.                                                  *)
(***************************************************************************)
\* get_path_signature(path): path.join('->')
RECURSIVE get_path_signature(_)
get_path_signature(path) ==
    IF path = << >> THEN << >>
    ELSE IF Len(path) = 1 THEN path[1]
    ELSE path[1] \o <<"-", ">">> \o get_path_signature(Tail(path))

\* The entry of freq_map for a signature: its place in the map, 0 if none.
FreqMapIndex(freq_map, path_key) ==
    IF \E k \in 1..Len(freq_map) : freq_map[k].path_key = path_key
    THEN CHOOSE k \in 1..Len(freq_map) : freq_map[k].path_key = path_key
    ELSE 0

\* freq_map after the path was met at the place k of the map (0: a new path):
\* its count goes up, or it enters the map with the next order.
CountAt(freq_map, path, k) ==
    IF k # 0 THEN [freq_map EXCEPT ![k].count = @ + 1]
    ELSE Append(freq_map, [path_key |-> get_path_signature(path), count |-> 1,
                           order |-> Len(freq_map), path |-> path])

\* collect_keys_from_node: the node at n of the record, then its children
\* from the p-th on, each with the path of the node.
RECURSIVE collect_keys_from_node(_, _, _, _), CollectChildren(_, _, _, _, _)
collect_keys_from_node(record, n, path, freq_map) ==
    IF record[n].parent_key # NullString
    THEN CollectChildren(record, n, 1, Append(path, record[n].parent_key),
             CountAt(freq_map, Append(path, record[n].parent_key),
                 FreqMapIndex(freq_map,
                     get_path_signature(Append(path, record[n].parent_key)))))
    ELSE CollectChildren(record, n, 1, path, freq_map)

CollectChildren(record, n, p, path, freq_map) ==
    IF p > Len(record[n].children) THEN freq_map
    ELSE CollectChildren(record, n, p + 1, path,
             collect_keys_from_node(record, record[n].children[p], path, freq_map))

\* The loop over the records.
RECURSIVE CollectRecords(_, _, _)
CollectRecords(records, k, freq_map) ==
    IF k > Len(records) THEN freq_map
    ELSE CollectRecords(records, k + 1,
             collect_keys_from_node(records[k], 1, << >>, freq_map))

\* The comparison of the sort: by count, most first, then by order.
SortsBefore(a, b) ==
    IF b.count # a.count THEN b.count < a.count ELSE a.order < b.order

\* The entries at the places left of the map, sorted.
RECURSIVE SortedPairs(_, _)
SortedPairs(freq_map, left) ==
    IF left = {} THEN << >>
    ELSE LET first == CHOOSE a \in left :
                          \A b \in left \ {a} : SortsBefore(freq_map[a], freq_map[b])
         IN  <<[path |-> freq_map[first].path, count |-> freq_map[first].count]>>
                 \o SortedPairs(freq_map, left \ {first})

\* calculate_key_frequency_stats once parse_json_objects has ended: nothing
\* for a call that threw, and the sorted counts of the paths otherwise.
FrequencyStats(records, thrown) ==
    IF thrown # NoError THEN << >>
    ELSE SortedPairs(CollectRecords(records, 1, << >>),
                     1..Len(CollectRecords(records, 1, << >>)))

\* calculate_key_frequency_stats(lines, line_nums)
calculate_key_frequency_stats(lines, line_nums) ==
    FrequencyStats(parse_json_objects(lines, line_nums).records,
                   parse_json_objects(lines, line_nums).error)

\* config.get('autohighlight_key_frequency', 2)
min_frequency == 2
\* config.get('autohighlight_min_keys_count', 2)
min_keys_count == 2

\* The sequence turned round.
Reversed(path) == [k \in 1..Len(path) |-> path[Len(path) + 1 - k]]

\* The paths that stay of the paths often enough: none when they are fewer
\* than min_keys_count, and the first five otherwise, each turned round.
ReversedPaths(frequent) ==
    IF Len(frequent) < min_keys_count THEN << >>
    ELSE [k \in 1..(IF Len(frequent) < 5 THEN Len(frequent) ELSE 5) |->
             Reversed(frequent[k].path)]

\* get_keys_to_highlight, the list it stores for the document.
keys_to_highlight(frequency_stats) ==
    ReversedPaths(SelectSeq(frequency_stats, LAMBDA stat : stat.count >= min_frequency))

(***************************************************************************)
(* The inputs.  A document is a sequence of lines; the parser is given a   *)
(* contiguous window of its lines with their line numbers in the document. *)
(***************************************************************************)
\* The lexemes a single-line document is written with, one after the other.
Lexemes ==
    {<<"{">>, <<"}">>, <<"[">>, <<"]">>, <<":">>, <<",">>,
     <<"\"", "a", "\"">>, <<"1">>}

\* The lines a multi-line document is written with.
LineTexts ==
    {<<"{">>, <<"}">>, <<"[">>, <<"]">>,
     <<"\"", "a", "\"", ":", "{", "}">>,
     <<"{", "\"", "a", "\"", ":", "1", ",", "\"", "b", "\"", ":", "[", "2", "]", "}">>,
     <<"@">>}

\* The sequences of at most n elements of the set S.
SeqsUpTo(S, n) == UNION {[1..k -> S] : k \in 0..n}

\* The texts of a sequence of lexemes, joined.
RECURSIVE Concat(_)
Concat(texts) == IF texts = << >> THEN << >> ELSE Head(texts) \o Concat(Tail(texts))

SingleLineDocs == {<<Concat(lexemes)>> : lexemes \in SeqsUpTo(Lexemes, MaxLen)}

MultiLineDocs == SeqsUpTo(LineTexts, MaxLines)

(***************************************************************************)
(* The documents of the test suite, with their keys and values shortened   *)
(* to one character.                                                       *)
(***************************************************************************)
\* test 'Parse deeply nested structure':
\*   {"a": {"b": {"c": {"d": 1}}}}
DeeplyNested ==
    <<<<"{", "\"", "a", "\"", ":", " ", "{", "\"", "b", "\"", ":", " ", "{", "\"",
        "c", "\"", ":", " ", "{", "\"", "d", "\"", ":", " ", "1", "}", "}",
        "}", "}">>>>

\* test 'Parse object with all scalar types':
\*   {"s": "t", "n": 42, "b": true, "z": null}
AllScalarTypes ==
    <<<<"{", "\"", "s", "\"", ":", " ", "\"", "t", "\"", ",", " ", "\"", "n", "\"",
        ":", " ", "4", "2", ",", " ", "\"", "b", "\"", ":", " ", "t", "r",
        "u", "e", ",", " ", "\"", "z", "\"", ":", " ", "n", "u", "l", "l",
        "}">>>>

\* test 'Error on missing colon':
\*   {"k" "v"}
MissingColon ==
    <<<<"{", "\"", "k", "\"", " ", "\"", "v", "\"", "}">>>>

\* test 'Error on missing comma in object':
\*   {"a": 1 "b": 2}
MissingCommaInObject ==
    <<<<"{", "\"", "a", "\"", ":", " ", "1", " ", "\"", "b", "\"", ":", " ", "2",
        "}">>>>

\* test 'Error on missing comma in array':
\*   [1 2 3]
MissingCommaInArray ==
    <<<<"[", "1", " ", "2", " ", "3", "]">>>>

\* test 'Error on trailing comma in object':
\*   {"k": "v",}
TrailingComma ==
    <<<<"{", "\"", "k", "\"", ":", " ", "\"", "v", "\"", ",", "}">>>>

\* test 'Error on mismatched brackets':
\*   {"k": [1, 2}
MismatchedBrackets ==
    <<<<"{", "\"", "k", "\"", ":", " ", "[", "1", ",", " ", "2", "}">>>>

\* test 'Parse mixed valid and invalid content':
\*   garbage
\*   {"v": 1}
\*   more garbage
MixedValidInvalid ==
    <<<<"g", "a", "r", "b", "a", "g", "e">>,
      <<"{", "\"", "v", "\"", ":", " ", "1", "}">>,
      <<"m", "o", "r", "e", " ", "g", "a", "r", "b", "a", "g", "e">>>>

\* test 'Parse with invalid syntax in middle':
\*   {"i": 1}
\*   [1, 2, 3
\*   {"i": 2}
InvalidSyntaxInMiddle ==
    <<<<"{", "\"", "i", "\"", ":", " ", "1", "}">>,
      <<"[", "1", ",", " ", "2", ",", " ", "3">>,
      <<"{", "\"", "i", "\"", ":", " ", "2", "}">>>>

\* a well-formed record followed by one with a missing colon:
\*   {"i": 1}
\*   {"i" 2}
SecondRecordBroken ==
    <<<<"{", "\"", "i", "\"", ":", " ", "1", "}">>,
      <<"{", "\"", "i", "\"", " ", "2", "}">>>>

\* test 'Leading Trailing Incomplete':
\*   "k": {"i": "1"}},
\*       {"i": "2"},
\*       {"i": "3"}
\*   ]
\*   {
\*       "i": "4"
\*   }
\*   {
\*       "i": "5"
\*   }
\*   [  {"i": "6"},
\*      {
\*           "k": {"i": "7"},
\*           "k": {"i": "8"},
\*           "k": [ {"i": "9"},
\*   (empty line)
\*   (empty line)
LeadingTrailingIncomplete ==
    <<<<"\"", "k", "\"", ":", " ", "{", "\"", "i", "\"", ":", " ", "\"", "1", "\"",
        "}", "}", ",">>,
      <<" ", " ", " ", " ", "{", "\"", "i", "\"", ":", " ", "\"", "2", "\"", "}",
        ",">>,
      <<" ", " ", " ", " ", "{", "\"", "i", "\"", ":", " ", "\"", "3", "\"", "}">>,
      <<"]">>,
      <<"{">>,
      <<" ", " ", " ", " ", "\"", "i", "\"", ":", " ", "\"", "4", "\"">>,
      <<"}">>,
      <<"{">>,
      <<" ", " ", " ", " ", "\"", "i", "\"", ":", " ", "\"", "5", "\"">>,
      <<"}">>,
      <<"[", " ", " ", "{", "\"", "i", "\"", ":", " ", "\"", "6", "\"", "}", ",">>,
      <<" ", " ", " ", "{">>,
      <<" ", " ", " ", " ", " ", " ", " ", " ", "\"", "k", "\"", ":", " ", "{",
        "\"", "i", "\"", ":", " ", "\"", "7", "\"", "}", ",">>,
      <<" ", " ", " ", " ", " ", " ", " ", " ", "\"", "k", "\"", ":", " ", "{",
        "\"", "i", "\"", ":", " ", "\"", "8", "\"", "}", ",">>,
      <<" ", " ", " ", " ", " ", " ", " ", " ", "\"", "k", "\"", ":", " ", "[",
        " ", "{", "\"", "i", "\"", ":", " ", "\"", "9", "\"", "}", ",">>,
      << >>,
      << >>>>

\* a well-formed JSON document over several lines:
\*   [
\*    {"a": {"b": 1},
\*     "c": [
\*      {"d": 2}
\*     ]
\*    },
\*    [
\*     [3],
\*     4
\*    ]
\*   ]
NestedDocument ==
    <<<<"[">>,
      <<" ", "{", "\"", "a", "\"", ":", " ", "{", "\"", "b", "\"", ":", " ", "1",
        "}", ",">>,
      <<" ", " ", "\"", "c", "\"", ":", " ", "[">>,
      <<" ", " ", " ", "{", "\"", "d", "\"", ":", " ", "2", "}">>,
      <<" ", " ", "]">>,
      <<" ", "}", ",">>,
      <<" ", "[">>,
      <<" ", " ", "[", "3", "]", ",">>,
      <<" ", " ", "4">>,
      <<" ", "]">>,
      <<"]">>>>

\* test 'Parse simple array with scalars':
\*   [1, 2, 3]
SimpleArray ==
    <<
      <<"[", "1", ",", " ", "2", ",", " ", "3", "]">>
    >>

\* A document whose objects repeat a key, on two lines:
\*   {"a": 1, "a": {"b": 2,
\*   "b": [3]}, "c": 4}
RepeatedKeys ==
    <<
      <<"{", "\"", "a", "\"", ":", " ", "1", ",", " ", "\"", "a", "\"", ":", " ",
        "{", "\"", "b", "\"", ":", " ", "2", ",">>,
      <<"\"", "b", "\"", ":", " ", "[", "3", "]", "}", ",", " ",
        "\"", "c", "\"", ":", " ", "4", "}">>
    >>

\* A document with an error of every phase, the later phase on the later
\* line: two records the grammar forbids, a mismatched closer, a character
\* that starts no token.
\*   {1}
\*   [:]
\*   {]
\*   @
ErrorOfEveryPhase ==
    <<
      <<"{", "1", "}">>,
      <<"[", ":", "]">>,
      <<"{", "]">>,
      <<"@">>
    >>

TestDocs ==
    {DeeplyNested, AllScalarTypes, MissingColon, MissingCommaInObject,
     MissingCommaInArray, TrailingComma, MismatchedBrackets, MixedValidInvalid,
     InvalidSyntaxInMiddle, SecondRecordBroken, LeadingTrailingIncomplete,
     NestedDocument, SimpleArray}

\* parse_document_range: the lines begin_line .. end_line - 1 of the document
\* (zero-based) and their line numbers.
parse_document_range(document, begin_line, end_line) ==
    [lines |-> [k \in 1..(end_line - begin_line) |-> document[begin_line + k]],
     line_nums |-> [k \in 1..(end_line - begin_line) |-> begin_line + k - 1]]

(***************************************************************************)
(* The state of one call of parse_json_objects(lines, line_nums), and what *)
(* outlives the calls.                                                     *)
(***************************************************************************)
\* The map of the extension before the keys of the document are asked for:
\* it has no entry for the file name.
NoEntry == [has |-> FALSE, keys |-> << >>]

\* The global object before any call: it has no property tokens.
NoGlobal == [defined |-> FALSE, value |-> << >>]

VARIABLES
    rainbow_token_event, \* extension: the registration it holds, or null
    registrations,       \* editor: the provider registrations not disposed of
    registrations_made,  \* editor: how many registrations were made so far
    handler_log,         \* editor: the handlers of the extension it ran last, at most two
    fileName,            \* extension: document.fileName
    per_doc_reversed_keys_to_highlight, \* extension: the entry of the map for fileName
    global_tokens,       \* the property tokens of the global object
    calls,               \* the calls that ended before this one: arguments and outcome
    doc,                 \* the document the window is cut from
    lines,               \* parameter: the lines of the window
    line_nums,           \* parameter: their line numbers
    pc,                  \* the statement the call stands at
    i,                   \* the index of the tokenizing loop
    tokens,              \* the tokens of the lines tokenized so far
    token_idx,           \* the token index of the grouping loop, then of the parser
    result,              \* grouping pass: the groups found so far
    stack,               \* grouping pass: the frames of the open brackets
    token_object_groups, \* the groups the grouping pass returned
    group_idx,           \* the index of the loop over the groups
    pda_stack,           \* structural parser: the parse frames
    nodes,               \* structural parser: the tree under construction
    records,             \* the records built so far
    returned,            \* the list handed to the caller by return
    error                \* the error thrown to the caller

\* What the extension and the editor hold of the token provider.
provider_vars == <<rainbow_token_event, registrations, registrations_made>>

vars == <<rainbow_token_event, registrations, registrations_made, handler_log,
          fileName,
          per_doc_reversed_keys_to_highlight, global_tokens, calls, doc,
          lines, line_nums, pc, i, tokens, token_idx, result, stack,
          token_object_groups, group_idx, pda_stack, nodes, records, returned, error>>

Init ==
    /\ doc \in SingleLineDocs \cup MultiLineDocs \cup TestDocs
                \cup {RepeatedKeys, ErrorOfEveryPhase}
    /\ \E begin_line \in 0..Len(doc) :
         \E end_line \in begin_line..Len(doc) :
            /\ end_line > begin_line \/ doc = << >>
            /\ lines = parse_document_range(doc, begin_line, end_line).lines
            /\ line_nums = parse_document_range(doc, begin_line, end_line).line_nums
    /\ fileName = << >>
    /\ per_doc_reversed_keys_to_highlight = NoEntry
    /\ rainbow_token_event = NullInt
    /\ registrations = {}
    /\ registrations_made = 0
    /\ handler_log = << >>
    /\ global_tokens = NoGlobal
    /\ calls = << >>
    /\ pc = "tokenize"
    /\ i = 0
    /\ tokens = << >>
    /\ token_idx = 0
    /\ result = << >>
    /\ stack = << >>
    /\ token_object_groups = << >>
    /\ group_idx = 0
    /\ pda_stack = << >>
    /\ nodes = << >>
    /\ records = << >>
    /\ returned = << >>
    /\ error = NoError

\* Variant of Throw: the error is caught and the records built so far returned.
Throw_ReturnPartial(e) ==
    /\ pc' = "returned"
    /\ error' = e
    /\ returned' = records

\* throw: the call ends with the error and returns nothing.
Throw(e) ==
    /\ pc' = "thrown"
    /\ error' = e
    /\ UNCHANGED returned

\* Variant of TokenizeLineEnds: a line that does not tokenize is left out.
TokenizeLineEnds_SkipsLine(tokenized) ==
    /\ tokens' = IF tokenized.error # NoError THEN tokens ELSE tokenized.tokens
    /\ i' = i + 1
    /\ UNCHANGED <<pc, error, returned>>

\* How a call of tokenize_json_line_in_place ends: it throws, or the loop
\* over the lines goes on with the tokens it pushed.
TokenizeLineEnds(tokenized) ==
    IF tokenized.error # NoError
    THEN /\ Throw(tokenized.error)
         /\ UNCHANGED <<i, tokens>>
    ELSE /\ tokens' = tokenized.tokens
         /\ i' = i + 1
         /\ UNCHANGED <<pc, error, returned>>

\* Variant of TokenizeLine: the tokens get the index of the line in the
\* window for their line number.
TokenizeLine_ByIndex ==
    /\ pc = "tokenize"
    /\ i < Len(lines)
    /\ TokenizeLineEnds(tokenize_json_line_in_place(lines[i + 1], i, tokens))
    /\ UNCHANGED <<provider_vars, handler_log, fileName, per_doc_reversed_keys_to_highlight,
                   global_tokens, calls,
                   doc, lines, line_nums, token_idx, result, stack, token_object_groups,
                   group_idx, pda_stack, nodes, records>>

\* One iteration of the loop over the lines: line i is tokenized onto tokens.
TokenizeLine ==
    /\ pc = "tokenize"
    /\ i < Len(lines)
    /\ TokenizeLineEnds(tokenize_json_line_in_place(lines[i + 1], line_nums[i + 1], tokens))
    /\ UNCHANGED <<provider_vars, handler_log, fileName, per_doc_reversed_keys_to_highlight,
                   global_tokens, calls,
                   doc, lines, line_nums, token_idx, result, stack, token_object_groups,
                   group_idx, pda_stack, nodes, records>>

\* The loop over the lines is left and group_tokens_into_full_object_groups entered.
StartGrouping ==
    /\ pc = "tokenize"
    /\ i >= Len(lines)
    /\ pc' = "group"
    /\ token_idx' = 0
    /\ result' = << >>
    /\ stack' = << >>
    /\ UNCHANGED <<provider_vars, handler_log, fileName, per_doc_reversed_keys_to_highlight,
                   global_tokens, calls,
                   doc, lines, line_nums, i, tokens, token_object_groups, group_idx,
                   pda_stack, nodes, records, returned, error>>

\* Variant of GroupTokenEnds: the scan goes on two tokens further.
GroupTokenEnds_SkipsToken(step) ==
    IF step.error # NoError
    THEN /\ Throw(step.error)
         /\ UNCHANGED <<token_idx, result, stack>>
    ELSE /\ result' = step.result
         /\ stack' = step.stack
         /\ token_idx' = token_idx + 2
         /\ UNCHANGED <<pc, error, returned>>

\* How an iteration of the scanning loop ends: it throws, or the scan goes on.
GroupTokenEnds(step) ==
    IF step.error # NoError
    THEN /\ Throw(step.error)
         /\ UNCHANGED <<token_idx, result, stack>>
    ELSE /\ result' = step.result
         /\ stack' = step.stack
         /\ token_idx' = token_idx + 1
         /\ UNCHANGED <<pc, error, returned>>

\* One iteration of the scanning loop of the grouping pass.
GroupToken ==
    /\ pc = "group"
    /\ token_idx < Len(tokens)
    /\ GroupTokenEnds(GroupStep(tokens, token_idx, result, stack))
    /\ UNCHANGED <<provider_vars, handler_log, fileName, per_doc_reversed_keys_to_highlight,
                   global_tokens, calls,
                   doc, lines, line_nums, i, tokens, token_object_groups, group_idx,
                   pda_stack, nodes, records>>

\* The end of the grouping pass: the children of the open frames are flushed
\* and the groups returned to parse_json_objects.
GroupFlush ==
    /\ pc = "group"
    /\ token_idx >= Len(tokens)
    /\ token_object_groups' = FlushStack(result, stack)
    /\ result' = FlushStack(result, stack)
    /\ group_idx' = 0
    /\ records' = << >>
    /\ pc' = "records"
    /\ UNCHANGED <<provider_vars, handler_log, fileName, per_doc_reversed_keys_to_highlight,
                   global_tokens, calls,
                   doc, lines, line_nums, i, tokens, token_idx, stack, pda_stack, nodes,
                   returned, error>>

\* How the entry of consume_json_record ends: it throws for a first token
\* that opens no container, or its loop starts behind that token.
StartRecordEnds(start, first_token_idx) ==
    IF start.error # NoError
    THEN /\ Throw(start.error)
         /\ UNCHANGED <<token_idx, pda_stack, nodes>>
    ELSE /\ pc' = "consume"
         /\ token_idx' = first_token_idx + 1
         /\ pda_stack' = start.pda_stack
         /\ nodes' = start.nodes
         /\ UNCHANGED <<error, returned>>

\* consume_json_record is entered at token first_token_idx.
StartRecordAt(first_token_idx) ==
    IF first_token_idx >= Len(tokens)
    THEN /\ pc' = "consumed"
         /\ token_idx' = first_token_idx
         /\ pda_stack' = << >>
         /\ nodes' = << >>
         /\ UNCHANGED <<error, returned>>
    ELSE StartRecordEnds(ConsumeStart(tokens, first_token_idx), first_token_idx)

\* consume_json_record is called on the first token of the next group.
StartRecord ==
    /\ pc = "records"
    /\ group_idx < Len(token_object_groups)
    /\ StartRecordAt(token_object_groups[group_idx + 1].first_token_idx)
    /\ UNCHANGED <<provider_vars, handler_log, fileName, per_doc_reversed_keys_to_highlight,
                   global_tokens, calls,
                   doc, lines, line_nums, i, tokens, result, stack, token_object_groups,
                   group_idx, records>>

\* How an iteration of the loop of consume_json_record ends: it throws, or
\* the loop goes on.
ConsumeTokenEnds(step) ==
    IF step.error # NoError
    THEN /\ Throw(step.error)
         /\ UNCHANGED <<token_idx, pda_stack, nodes>>
    ELSE /\ pda_stack' = step.pda_stack
         /\ nodes' = step.nodes
         /\ token_idx' = token_idx + 1
         /\ UNCHANGED <<pc, error, returned>>

\* One iteration of the loop of consume_json_record.
ConsumeToken ==
    /\ pc = "consume"
    /\ token_idx < Len(tokens) /\ Len(pda_stack) > 0
    /\ ConsumeTokenEnds(ConsumeStep(tokens, token_idx, pda_stack, nodes))
    /\ UNCHANGED <<provider_vars, handler_log, fileName, per_doc_reversed_keys_to_highlight,
                   global_tokens, calls,
                   doc, lines, line_nums, i, tokens, result, stack, token_object_groups,
                   group_idx, records>>

\* The loop of consume_json_record is left: it throws for brackets left open
\* and returns the root otherwise.
EndConsume ==
    /\ pc = "consume"
    /\ ~(token_idx < Len(tokens) /\ Len(pda_stack) > 0)
    /\ IF Len(pda_stack) > 0
       THEN Throw(JsonIncompleteError)
       ELSE /\ pc' = "consumed"
            /\ UNCHANGED <<error, returned>>
    /\ UNCHANGED <<provider_vars, handler_log, fileName, per_doc_reversed_keys_to_highlight,
                   global_tokens, calls,
                   doc, lines, line_nums, i, tokens, token_idx, result, stack,
                   token_object_groups, group_idx, pda_stack, nodes, records>>

\* Back in parse_json_objects: the assertion on the index consume_json_record
\* returned, then the record gets its depth and joins the records.
PushRecord ==
    /\ pc = "consumed"
    /\ LET token_object_group == token_object_groups[group_idx + 1]
       IN  IF token_idx # token_object_group.last_token_idx + 1 \/ nodes = << >>
           THEN /\ Throw(AssertionError)
                /\ UNCHANGED <<records, group_idx>>
           ELSE /\ records' = Append(records,
                        WithRelativeDepth(nodes, token_object_group.relative_depth))
                /\ group_idx' = group_idx + 1
                /\ pc' = "records"
                /\ UNCHANGED <<error, returned>>
    /\ UNCHANGED <<provider_vars, handler_log, fileName, per_doc_reversed_keys_to_highlight,
                   global_tokens, calls,
                   doc, lines, line_nums, i, tokens, token_idx, result, stack,
                   token_object_groups, pda_stack, nodes>>

\* return records
Return ==
    /\ pc = "records"
    /\ group_idx >= Len(token_object_groups)
    /\ returned' = records
    /\ pc' = "returned"
    /\ UNCHANGED <<provider_vars, handler_log, fileName, per_doc_reversed_keys_to_highlight,
                   global_tokens, calls,
                   doc, lines, line_nums, i, tokens, token_idx, result, stack,
                   token_object_groups, group_idx, pda_stack, nodes, records, error>>

Next ==
    \/ TokenizeLine
    \/ StartGrouping
    \/ GroupToken
    \/ GroupFlush
    \/ StartRecord
    \/ ConsumeToken
    \/ EndConsume
    \/ PushRecord
    \/ Return

Spec == Init /\ [][Next]_vars

(***************************************************************************)
(* Calls on lines the caller numbers as it likes: a record or nothing on   *)
(* each line, and any line number for each line.                           *)
(***************************************************************************)
\* A blank line, and the records of the tests 'Parse with line numbers' and
\* 'Parse array of objects', shortened.
RecordLineTexts ==
    {<< >>,
     <<"{", "\"", "a", "\"", ":", " ", "1", "}">>,
     <<" ", "[", "{", "\"", "b", "\"", ":", " ", "[", "2", "]", "}", ",", " ", "3", "]">>}

\* The line numbers a caller hands over.
LineNumbers == {0, 1, 42}

\* The locals of a call at its entry.
FreshCall ==
    /\ fileName = << >>
    /\ per_doc_reversed_keys_to_highlight = NoEntry
    /\ rainbow_token_event = NullInt
    /\ registrations = {}
    /\ registrations_made = 0
    /\ handler_log = << >>
    /\ global_tokens = NoGlobal
    /\ calls = << >>
    /\ pc = "tokenize"
    /\ i = 0
    /\ tokens = << >>
    /\ token_idx = 0
    /\ result = << >>
    /\ stack = << >>
    /\ token_object_groups = << >>
    /\ group_idx = 0
    /\ pda_stack = << >>
    /\ nodes = << >>
    /\ records = << >>
    /\ returned = << >>
    /\ error = NoError

InitNumbered ==
    /\ lines \in SeqsUpTo(RecordLineTexts, MaxLines)
    /\ line_nums \in [1..Len(lines) -> LineNumbers]
    /\ doc = lines
    /\ FreshCall

SpecNumbered == InitNumbered /\ [][Next]_vars

(***************************************************************************)
(* Calls on one line written with any characters of a small alphabet, and  *)
(* on the lines of the tokenizer tests.                                    *)
(***************************************************************************)
\* Brackets, a quote, a backslash, a blank, digits, and the characters a
\* number is written with.
Alphabet == {"{", "}", "\"", "\\", " ", "1", "0", ".", "-", "e"}

\* test 'Token positions':  {"a": 1}
TokenPositionsLine == <<"{", "\"", "a", "\"", ":", " ", "1", "}">>

\* test 'Mixed types', shortened:  [true, false, null, 42, "t"]
MixedTypesLine ==
    <<"[", "t", "r", "u", "e", ",", " ", "f", "a", "l", "s", "e", ",", " ",
      "n", "u", "l", "l", ",", " ", "4", "2", ",", " ", "\"", "t", "\"", "]">>

\* test 'Whitespace handling', shortened:    {  "k"  :  "v"  }
WhitespaceHandlingLine ==
    <<" ", " ", "{", " ", " ", "\"", "k", "\"", " ", " ", ":", " ", " ",
      "\"", "v", "\"", " ", " ", "}", " ", " ">>

\* test 'Whitespace only returns empty array'
WhitespaceOnlyLine == <<" ", " ", " ", "\t", " ", " ">>

\* test 'Invalid character in middle throws error', shortened:  {"k"@ "v"}
InvalidInMiddleLine == <<"{", "\"", "k", "\"", "@", " ", "\"", "v", "\"", "}">>

\* test 'Unclosed string throws error', shortened:  "un
UnclosedStringLine == <<"\"", "u", "n">>

TokenizerTestLines ==
    {TokenPositionsLine, MixedTypesLine, WhitespaceHandlingLine, WhitespaceOnlyLine,
     InvalidInMiddleLine, UnclosedStringLine}

InitChars ==
    /\ \E line \in SeqsUpTo(Alphabet, MaxChars) \cup TokenizerTestLines : lines = <<line>>
    /\ line_nums \in [1..1 -> LineNumbers]
    /\ doc = lines
    /\ FreshCall

SpecChars == InitChars /\ [][Next]_vars

(***************************************************************************)
(* Calls one after the other, as the extension makes them on the windows   *)
(* of a document.  A call that ended is followed by the next one; the      *)
(* arguments and the outcome of the ended call are kept in calls.  The     *)
(* locals of the ended call are left as they were, so that a later call    *)
(* that read one of them before its own initialisation would see it.       *)
(***************************************************************************)
\* Variant of CallAgain: tokens is not made anew at the entry of the call, as
\* if the array were kept by the module.
CallAgain_KeepTokens ==
    /\ pc \in {"returned", "thrown"}
    /\ Len(calls) < MaxCalls
    /\ calls' = Append(calls, [lines |-> lines, line_nums |-> line_nums,
                               returned |-> returned, error |-> error])
    /\ \E begin_line \in 0..Len(doc) :
         \E end_line \in begin_line..Len(doc) :
            /\ end_line > begin_line \/ doc = << >>
            /\ lines' = parse_document_range(doc, begin_line, end_line).lines
            /\ line_nums' = parse_document_range(doc, begin_line, end_line).line_nums
    /\ pc' = "tokenize"
    /\ i' = 0
    /\ returned' = << >>
    /\ error' = NoError
    /\ UNCHANGED <<provider_vars, handler_log, fileName, per_doc_reversed_keys_to_highlight,
                   global_tokens, doc,
                   tokens, token_idx, result, stack,
                   token_object_groups, group_idx, pda_stack, nodes, records>>

\* The call has ended and parse_json_objects is called again, on any window
\* of the document: let tokens = [] and the loop over the lines starts.
CallAgain ==
    /\ pc \in {"returned", "thrown"}
    /\ Len(calls) < MaxCalls
    /\ calls' = Append(calls, [lines |-> lines, line_nums |-> line_nums,
                               returned |-> returned, error |-> error])
    /\ \E begin_line \in 0..Len(doc) :
         \E end_line \in begin_line..Len(doc) :
            /\ end_line > begin_line \/ doc = << >>
            /\ lines' = parse_document_range(doc, begin_line, end_line).lines
            /\ line_nums' = parse_document_range(doc, begin_line, end_line).line_nums
    /\ pc' = "tokenize"
    /\ i' = 0
    /\ tokens' = << >>
    /\ returned' = << >>
    /\ error' = NoError
    /\ UNCHANGED <<provider_vars, handler_log, fileName, per_doc_reversed_keys_to_highlight,
                   global_tokens, doc,
                   token_idx, result, stack, token_object_groups,
                   group_idx, pda_stack, nodes, records>>

\* Between two calls of parse_json_objects the caller calls
\* tokenize_json_line(line, line_num) on a line of the document, with the
\* number of the line or without one.  The function holds no strict-mode
\* directive and declares no tokens: its first statement, tokens = [],
\* binds the array to the property tokens of the global object, and the
\* tokens are pushed onto that array, up to the end of the line or to the throw.
TokenizeJsonLine ==
    /\ pc \in {"returned", "thrown"}
    /\ \E k \in 1..Len(doc) :
         \E line_num \in {NullInt, k - 1} :
            global_tokens' =
                [defined |-> TRUE,
                 value |-> tokenize_json_line_in_place(doc[k], line_num, << >>).tokens]
    /\ UNCHANGED <<provider_vars, handler_log, fileName, per_doc_reversed_keys_to_highlight,
                   calls, doc, lines, line_nums, pc, i, tokens, token_idx, result, stack,
                   token_object_groups, group_idx, pda_stack, nodes, records, returned,
                   error>>

\* The documents the calls are made on: those of fewer than MaxLines lines.
CallDocs == SeqsUpTo(LineTexts, MaxLines - 1)

InitCalls ==
    /\ doc \in CallDocs
    /\ \E begin_line \in 0..Len(doc) :
         \E end_line \in begin_line..Len(doc) :
            /\ end_line > begin_line \/ doc = << >>
            /\ lines = parse_document_range(doc, begin_line, end_line).lines
            /\ line_nums = parse_document_range(doc, begin_line, end_line).line_nums
    /\ FreshCall

NextCalls ==
    \/ TokenizeLine
    \/ StartGrouping
    \/ GroupToken
    \/ GroupFlush
    \/ StartRecord
    \/ ConsumeToken
    \/ EndConsume
    \/ PushRecord
    \/ Return
    \/ CallAgain
    \/ TokenizeJsonLine

SpecCalls == InitCalls /\ [][NextCalls]_vars

(***************************************************************************)
(* The extension asking for the keys to highlight in a document: at the    *)
(* first request for a file name the whole document is parsed and the      *)
(* list found is stored under the file name; every later request is        *)
(* answered from the map.  Between two requests the document is edited.    *)
(***************************************************************************)
\* Records of a dataset, with keys a and b alone, nested and in an array; a
\* line the tokenizer throws on and a line the parser throws on.
KeyLineTexts ==
    {<<"{", "\"", "a", "\"", ":", "1", ",", "\"", "b", "\"", ":", "2", "}">>,
     <<"{", "\"", "a", "\"", ":", "1", "}">>,
     <<"[", "{", "\"", "a", "\"", ":", "{", "\"", "b", "\"", ":", "1", "}", "}", ",",
       "{", "\"", "a", "\"", ":", "{", "\"", "b", "\"", ":", "2", "}", "}", "]">>,
     <<"{", "\"", "b", "\"", ":", "{", "\"", "a", "\"", ":", "1", "}", "}">>,
     <<"@">>,
     <<"{", "\"", "a", "\"", "}">>}

KeyDocs == SeqsUpTo(KeyLineTexts, MaxLines)

\* document.fileName: none for a document never saved, or a name.
FileNames == {<< >>, <<"f">>}

\* new vscode.Range(0, 0, document.lineCount, 0) handed to parse_document_range
WholeDocument(document) == parse_document_range(document, 0, Len(document))

InitKeys ==
    /\ doc \in KeyDocs
    /\ fileName \in FileNames
    /\ per_doc_reversed_keys_to_highlight = NoEntry
    /\ rainbow_token_event = NullInt
    /\ registrations = {}
    /\ registrations_made = 0
    /\ handler_log = << >>
    /\ global_tokens = NoGlobal
    /\ calls = << >>
    /\ lines = << >>
    /\ line_nums = << >>
    /\ pc = "get_keys"
    /\ i = 0
    /\ tokens = << >>
    /\ token_idx = 0
    /\ result = << >>
    /\ stack = << >>
    /\ token_object_groups = << >>
    /\ group_idx = 0
    /\ pda_stack = << >>
    /\ nodes = << >>
    /\ records = << >>
    /\ returned = << >>
    /\ error = NoError

\* get_keys_to_highlight is entered: it returns at once for a document
\* without a file name and for a file name the map has; for any other the
\* whole document goes to calculate_key_frequency_stats, which calls
\* parse_json_objects.
GetKeysToHighlight ==
    /\ pc = "get_keys"
    /\ IF fileName # << >> /\ ~per_doc_reversed_keys_to_highlight.has
       THEN /\ pc' = "tokenize"
            /\ lines' = WholeDocument(doc).lines
            /\ line_nums' = WholeDocument(doc).line_nums
            /\ i' = 0
            /\ tokens' = << >>
            /\ returned' = << >>
            /\ error' = NoError
       ELSE /\ pc' = "keys"
            /\ UNCHANGED <<lines, line_nums, i, tokens, returned, error>>
    /\ UNCHANGED <<provider_vars, handler_log, fileName, per_doc_reversed_keys_to_highlight,
                   global_tokens, calls,
                   doc, token_idx, result, stack, token_object_groups, group_idx,
                   pda_stack, nodes, records>>

\* parse_json_objects has ended: calculate_key_frequency_stats returns the
\* counts, or nothing if it threw, and get_keys_to_highlight stores the list
\* it makes of them under the file name.
StoreKeysToHighlight ==
    /\ pc \in {"returned", "thrown"}
    /\ fileName # << >>
    /\ ~per_doc_reversed_keys_to_highlight.has
    /\ per_doc_reversed_keys_to_highlight' =
          [has |-> TRUE, keys |-> keys_to_highlight(FrequencyStats(returned, error))]
    /\ pc' = "keys"
    /\ UNCHANGED <<provider_vars, handler_log, fileName, global_tokens, calls, doc, lines,
                   line_nums, i, tokens,
                   token_idx, result, stack, token_object_groups, group_idx, pda_stack,
                   nodes, records, returned, error>>

\* The documents one edit makes of a document: a line is rewritten, the
\* last line is deleted, or a line is added at the end.
Edits(document) ==
    {[document EXCEPT ![k] = text] :
        k \in 1..Len(document), text \in KeyLineTexts}
    \cup (IF document = << >> THEN {} ELSE {SubSeq(document, 1, Len(document) - 1)})
    \cup {Append(document, text) : text \in KeyLineTexts}

\* The user edits the document, and the editor asks for its tokens again.
EditDocument ==
    /\ pc = "keys"
    /\ doc' \in (Edits(doc) \cap KeyDocs) \ {doc}
    /\ pc' = "get_keys"
    /\ UNCHANGED <<provider_vars, handler_log, fileName, per_doc_reversed_keys_to_highlight,
                   global_tokens, calls,
                   lines, line_nums, i, tokens, token_idx, result, stack,
                   token_object_groups, group_idx, pda_stack, nodes, records, returned,
                   error>>

NextKeys ==
    \/ GetKeysToHighlight
    \/ TokenizeLine
    \/ StartGrouping
    \/ GroupToken
    \/ GroupFlush
    \/ StartRecord
    \/ ConsumeToken
    \/ EndConsume
    \/ PushRecord
    \/ Return
    \/ StoreKeysToHighlight
    \/ EditDocument

SpecKeys == InitKeys /\ [][NextKeys]_vars

(***************************************************************************)
(* The commands of the extension: activate, Enable, Disable and            *)
(* ToggleKeyHighlight, and the registration of the token provider they     *)
(* keep.  The editor keeps the registrations that were not disposed of.    *)
(***************************************************************************)
\* Variant of enable_dynamic_semantic_tokenization: the registration held is
\* not disposed of before the new one is made.
enable_dynamic_semantic_tokenization_NoDispose ==
    /\ registrations_made' = registrations_made + 1
    /\ registrations' = registrations \cup {registrations_made + 1}
    /\ rainbow_token_event' = registrations_made + 1

\* enable_dynamic_semantic_tokenization: the registration held, if any, is
\* disposed of, and a new provider is registered and held.
enable_dynamic_semantic_tokenization ==
    /\ registrations_made' = registrations_made + 1
    /\ registrations' =
          (IF rainbow_token_event # NullInt
           THEN registrations \ {rainbow_token_event} ELSE registrations)
              \cup {registrations_made + 1}
    /\ rainbow_token_event' = registrations_made + 1

\* disable_dynamic_semantic_tokenization
disable_dynamic_semantic_tokenization ==
    /\ IF rainbow_token_event # NullInt
       THEN /\ registrations' = registrations \ {rainbow_token_event}
            /\ rainbow_token_event' = NullInt
       ELSE UNCHANGED <<rainbow_token_event, registrations>>
    /\ UNCHANGED registrations_made

\* rainbow_token_types.length
max_num_keys_to_highlight == 8

\* null in the list of keys: the place of a key that was removed.
NullPath == << >>

\* Range.contains(position), for the range from start_position to end_position.
RangeContains(start_position, end_position, position) ==
    /\ ~(position.line < start_position.line \/ position.line > end_position.line)
    /\ ~(position.line = start_position.line
            /\ position.character < start_position.character)
    /\ ~(position.line = end_position.line
            /\ position.character > end_position.character)

\* node.getParentKeyRange().contains(position), for a node with a parent_key
ParentKeyRangeContains(node, position) ==
    RangeContains(node.parent_key_position,
                  Position(node.parent_key_position.line,
                           node.parent_key_position.character + Len(node.parent_key)),
                  position)

\* find_key_path_at_position on the node at n of the record, and the loop
\* over its children from the p-th on: the path found, or null.
RECURSIVE find_key_path_at_position(_, _, _, _), FindInChildren(_, _, _, _, _)
find_key_path_at_position(record, n, position, current_path) ==
    IF record[n].parent_key = NullString
    THEN FindInChildren(record, n, 1, position, current_path)
    ELSE IF ParentKeyRangeContains(record[n], position)
    THEN Append(current_path, record[n].parent_key)
    ELSE IF record[n].node_type = SCALAR_NODE_TYPE
            /\ RangeContains(record[n].start_position, record[n].end_position, position)
    THEN Append(current_path, record[n].parent_key)
    ELSE FindInChildren(record, n, 1, position,
                        Append(current_path, record[n].parent_key))

FindInChildren(record, n, p, position, current_path) ==
    IF p > Len(record[n].children) THEN NullPath
    ELSE IF find_key_path_at_position(record, record[n].children[p], position,
                                      current_path) # NullPath
    THEN find_key_path_at_position(record, record[n].children[p], position, current_path)
    ELSE FindInChildren(record, n, p + 1, position, current_path)

\* get_key_path_at_cursor once the document is parsed: null when the parser
\* threw, and otherwise the path found in the first record that has one.
RECURSIVE KeyPathInRecords(_, _, _)
KeyPathInRecords(parsed, k, position) ==
    IF parsed.error # NoError \/ k > Len(parsed.records) THEN NullPath
    ELSE IF find_key_path_at_position(parsed.records[k], 1, position, << >>) # NullPath
    THEN find_key_path_at_position(parsed.records[k], 1, position, << >>)
    ELSE KeyPathInRecords(parsed, k + 1, position)

\* get_key_path_at_cursor(document, position)
get_key_path_at_cursor(document, position) ==
    KeyPathInRecords(parse_json_objects(document, [k \in 1..Len(document) |-> k - 1]),
                     1, position)

\* editor.selection.active: the places of the document the cursor can be at.
CursorPositions(document) ==
    UNION {{Position(l - 1, character) : character \in 0..Len(document[l])} :
              l \in 1..Len(document)}

\* The key paths the command finds under the cursor, root first: those of
\* the document the editor shows, null for a cursor that is on no key.
CursorKeyPaths ==
    UNION {{KeyPathInRecords(parsed, 1, position) : position \in CursorPositions(doc)} :
              parsed \in {parse_json_objects(doc, [k \in 1..Len(doc) |-> k - 1])}}

\* findIndex: the first place of the list whose signature is the target's, 0
\* if there is none.
ExistingIndex(keys_list, reversed_path) ==
    IF \E k \in 1..Len(keys_list) :
           keys_list[k] # NullPath
           /\ get_path_signature(keys_list[k]) = get_path_signature(reversed_path)
    THEN CHOOSE k \in 1..Len(keys_list) :
           /\ keys_list[k] # NullPath
           /\ get_path_signature(keys_list[k]) = get_path_signature(reversed_path)
           /\ \A j \in 1..(k - 1) :
                 keys_list[j] = NullPath
                 \/ get_path_signature(keys_list[j]) # get_path_signature(reversed_path)
    ELSE 0

\* first_null_index, zero-based: the first place that holds null, or the
\* length of the list.
FirstNullIndex(keys_list) ==
    IF \E k \in 1..Len(keys_list) : keys_list[k] = NullPath
    THEN (CHOOSE k \in 1..Len(keys_list) :
             /\ keys_list[k] = NullPath
             /\ \A j \in 1..(k - 1) : keys_list[j] # NullPath) - 1
    ELSE Len(keys_list)

\* Variant of toggle_key_highlight: the key that is toggled off is taken
\* out of the list, and the entries after it move up.
ToggledAt_Spliced(keys_list, reversed_path, existing_index, first_null_index) ==
    IF existing_index # 0
    THEN [keys |-> SubSeq(keys_list, 1, existing_index - 1)
                      \o SubSeq(keys_list, existing_index + 1, Len(keys_list)),
          refresh |-> TRUE]
    ELSE IF first_null_index < Len(keys_list)
    THEN [keys |-> [keys_list EXCEPT ![first_null_index + 1] = reversed_path],
          refresh |-> TRUE]
    ELSE IF first_null_index >= max_num_keys_to_highlight
    THEN [keys |-> keys_list, refresh |-> FALSE]
    ELSE [keys |-> Append(keys_list, reversed_path), refresh |-> TRUE]

\* Variant of toggle_key_highlight: a key that is toggled on goes to the end
\* of the list, whether the list has a null slot or not.
ToggledAt_Appended(keys_list, reversed_path, existing_index, first_null_index) ==
    IF existing_index # 0
    THEN [keys |-> [keys_list EXCEPT ![existing_index] = NullPath], refresh |-> TRUE]
    ELSE IF Len(keys_list) >= max_num_keys_to_highlight
    THEN [keys |-> keys_list, refresh |-> FALSE]
    ELSE [keys |-> Append(keys_list, reversed_path), refresh |-> TRUE]

\* Variant of toggle_key_highlight: a key that is toggled on is appended to
\* a list without null slot however long the list is.
ToggledAt_Unbounded(keys_list, reversed_path, existing_index, first_null_index) ==
    IF existing_index # 0
    THEN [keys |-> [keys_list EXCEPT ![existing_index] = NullPath], refresh |-> TRUE]
    ELSE IF first_null_index < Len(keys_list)
    THEN [keys |-> [keys_list EXCEPT ![first_null_index + 1] = reversed_path],
          refresh |-> TRUE]
    ELSE [keys |-> Append(keys_list, reversed_path), refresh |-> TRUE]

\* toggle_key_highlight once the list of the file name is at hand: the list
\* it leaves, and whether it goes on to refresh the tokens.
ToggledAt(keys_list, reversed_path, existing_index, first_null_index) ==
    IF existing_index # 0
    THEN [keys |-> [keys_list EXCEPT ![existing_index] = NullPath], refresh |-> TRUE]
    ELSE IF first_null_index < Len(keys_list)
    THEN [keys |-> [keys_list EXCEPT ![first_null_index + 1] = reversed_path],
          refresh |-> TRUE]
    ELSE IF first_null_index >= max_num_keys_to_highlight
    THEN [keys |-> keys_list, refresh |-> FALSE]
    ELSE [keys |-> Append(keys_list, reversed_path), refresh |-> TRUE]

Toggled(keys_list, reversed_path) ==
    ToggledAt(keys_list, reversed_path, ExistingIndex(keys_list, reversed_path),
              FirstNullIndex(keys_list))

\* What the editor saw of one run of a handler of the extension: the key
\* path and language it ran on, the message it showed, the parses it made
\* (of what, and on whose behalf), and what it returned.
HandlerRun(handler) ==
    [handler |-> handler, key_path |-> NullPath, languageId |-> "", shown |-> "",
     parsed |-> << >>, returns |-> "", tokens |-> << >>]

\* handler_log after one more run: the last two runs are kept.
Logged(run) ==
    IF Len(handler_log) < 2 THEN Append(handler_log, run) ELSE <<handler_log[2], run>>

\* vscode.window.showErrorMessage of toggle_key_highlight and of the command
\* that calls it, "" when no error is shown.
ToggleShows(key_path) ==
    IF key_path = NullPath THEN "No JSON key found at cursor position"
    ELSE IF fileName = << >> THEN "Cannot toggle highlight: document has no file name"
    ELSE IF ~Toggled(per_doc_reversed_keys_to_highlight.keys, Reversed(key_path)).refresh
    THEN "Too many keys selected (max 8). Remove some keys first."
    ELSE ""

\* Variant of toggle_key_highlight: the list is changed and the provider is
\* left as it is.
toggle_key_highlight_NoRefresh(key_path) ==
    IF fileName = << >>
    THEN UNCHANGED <<provider_vars, per_doc_reversed_keys_to_highlight>>
    ELSE /\ per_doc_reversed_keys_to_highlight' =
               [has |-> TRUE,
                keys |-> Toggled(per_doc_reversed_keys_to_highlight.keys,
                                 Reversed(key_path)).keys]
         /\ UNCHANGED provider_vars

\* toggle_key_highlight(document, key_path)
toggle_key_highlight(key_path) ==
    IF fileName = << >>
    THEN UNCHANGED <<provider_vars, per_doc_reversed_keys_to_highlight>>
    ELSE /\ per_doc_reversed_keys_to_highlight' =
               [has |-> TRUE,
                keys |-> Toggled(per_doc_reversed_keys_to_highlight.keys,
                                 Reversed(key_path)).keys]
         /\ IF Toggled(per_doc_reversed_keys_to_highlight.keys, Reversed(key_path)).refresh
            THEN enable_dynamic_semantic_tokenization
            ELSE UNCHANGED provider_vars

\* The locals of the parser, which the commands leave alone.
parser_vars ==
    <<global_tokens, calls, doc, lines, line_nums, i, tokens, token_idx, result, stack,
      token_object_groups, group_idx, pda_stack, nodes, records, returned, error>>

\* activate(context): the provider is registered and the commands made known.
Activate ==
    /\ pc = "loaded"
    /\ enable_dynamic_semantic_tokenization
    /\ handler_log' = Logged(HandlerRun("activate"))
    /\ pc' = "enabled"
    /\ UNCHANGED <<fileName, per_doc_reversed_keys_to_highlight, parser_vars>>

\* command rainbow-json.Enable
Enable ==
    /\ pc \in {"enabled", "disabled", "toggled"}
    /\ registrations_made < MaxRegistrations
    /\ enable_dynamic_semantic_tokenization
    /\ handler_log' = Logged(HandlerRun("rainbow-json.Enable"))
    /\ pc' = "enabled"
    /\ UNCHANGED <<fileName, per_doc_reversed_keys_to_highlight, parser_vars>>

\* command rainbow-json.Disable
Disable ==
    /\ pc \in {"enabled", "disabled", "toggled"}
    /\ disable_dynamic_semantic_tokenization
    /\ handler_log' = Logged(HandlerRun("rainbow-json.Disable"))
    /\ pc' = "disabled"
    /\ UNCHANGED <<fileName, per_doc_reversed_keys_to_highlight, parser_vars>>

\* command rainbow-json.ToggleKeyHighlight: nothing is done but to show an
\* error without an editor on a JSON document and a key under the cursor
\* (key_path is null).
ToggleKeyHighlight ==
    /\ pc \in {"enabled", "disabled", "toggled"}
    /\ registrations_made < MaxRegistrations
    /\ \E key_path \in CursorKeyPaths \cup {NullPath} :
          /\ IF key_path = NullPath
             THEN UNCHANGED <<provider_vars, per_doc_reversed_keys_to_highlight>>
             ELSE toggle_key_highlight(key_path)
          /\ handler_log' =
                Logged([HandlerRun("rainbow-json.ToggleKeyHighlight") EXCEPT
                           !.key_path = key_path, !.shown = ToggleShows(key_path)])
    /\ pc' = "toggled"
    /\ UNCHANGED <<fileName, parser_vars>>

(***************************************************************************)
(* The token provider: provideDocumentRangeSemanticTokens and the          *)
(* functions that push the tokens it builds.                               *)
(***************************************************************************)
\* rainbow_token_types
rainbow_token_types ==
    <<"rainbow2", "rainbow4", "rainbow10", "rainbow8", "rainbow5", "rainbow6",
      "rainbow9", "rainbow7">>

\* ambient_token_type
ambient_token_type == "rainbow3"

\* new vscode.Range(start, end)
Range(start, end) == [start |-> start, end |-> end]

\* builder.push(range, token_type): the token handed to the builder.
Pushed(range, token_type) == [range |-> range, token_type |-> token_type]

\* extend_range_by_margin(vscode, doc, range, margin)
extend_range_by_margin(document, range, margin) ==
    Range(Position(IF range.start.line - margin < 0 THEN 0
                   ELSE range.start.line - margin,
                   range.start.character),
          Position(IF Len(document) - 1 < range.end.line + margin
                   THEN Len(document) - 1 ELSE range.end.line + margin,
                   range.end.character))

\* parse_document_range(vscode, doc, range): the bounds of its loop
LinesOfRange(document, range) ==
    parse_document_range(document,
        IF range.start.line < 0 THEN 0 ELSE range.start.line,
        IF Len(document) < range.end.line + 1 THEN Len(document)
        ELSE range.end.line + 1)

\* currentPosition.isBeforeOrEqual(lastPushedPosition)
isBeforeOrEqual(position, other) ==
    \/ position.line < other.line
    \/ position.line = other.line /\ position.character <= other.character

\* push_ambient_tokens_between_positions, its loop over the full lines
\* between the two positions, from the given line on.
RECURSIVE PushFullLines(_, _, _, _)
PushFullLines(document, line, end_line, built) ==
    IF line >= end_line THEN built
    ELSE PushFullLines(document, line + 1, end_line,
             IF Len(document[line + 1]) > 0
             THEN Append(built, Pushed(Range(Position(line, 0),
                                             Position(line, Len(document[line + 1]))),
                                       ambient_token_type))
             ELSE built)

\* push_ambient_tokens_between_positions: what the builder holds after it.
push_ambient_tokens_between_positions(document, lastPushedPosition, currentPosition, built) ==
    IF isBeforeOrEqual(currentPosition, lastPushedPosition) THEN built
    ELSE IF lastPushedPosition.line = currentPosition.line
    THEN Append(built, Pushed(Range(lastPushedPosition, currentPosition),
                              ambient_token_type))
    ELSE PushFullLines(document, lastPushedPosition.line + 1, currentPosition.line,
             IF lastPushedPosition.character
                    < Len(document[lastPushedPosition.line + 1])
             THEN Append(built,
                      Pushed(Range(lastPushedPosition,
                                   Position(lastPushedPosition.line,
                                            Len(document[lastPushedPosition.line + 1]))),
                             ambient_token_type))
             ELSE built)
         \o (IF currentPosition.character > 0
             THEN <<Pushed(Range(Position(currentPosition.line, 0), currentPosition),
                           ambient_token_type)>>
             ELSE << >>)

\* key.startsWith(signature)
StartsWith(key, signature) ==
    /\ Len(signature) <= Len(key)
    /\ SubSeq(key, 1, Len(signature)) = signature

\* push_current_node, its loop: the first index, zero-based, of a key that
\* is not null and starts with the signature; the length if there is none.
HighlightIndex(keys, current_path_signature) ==
    IF \E k \in 1..Len(keys) :
           keys[k] # NullString /\ StartsWith(keys[k], current_path_signature)
    THEN (CHOOSE k \in 1..Len(keys) :
             /\ keys[k] # NullString /\ StartsWith(keys[k], current_path_signature)
             /\ \A j \in 1..(k - 1) :
                   keys[j] = NullString \/ ~StartsWith(keys[j], current_path_signature)) - 1
    ELSE Len(keys)

\* push_current_node, the end of the range of the node: of its key, or of
\* its value for a scalar.
CurrentRangeEnd(node) ==
    IF node.node_type = SCALAR_NODE_TYPE /\ node.value # NullString
    THEN node.end_position
    ELSE Position(node.parent_key_position.line,
                  node.parent_key_position.character + Len(node.parent_key))

\* push_current_node once highlight_index is known: what the builder holds
\* and the position pushed last.
PushCurrentAt(document, node, highlight_index, length, pushed) ==
    IF highlight_index >= length THEN pushed
    ELSE [built |->
             Append(push_ambient_tokens_between_positions(document, pushed.last,
                        node.parent_key_position, pushed.built),
                    Pushed(Range(node.parent_key_position, CurrentRangeEnd(node)),
                           rainbow_token_types[(highlight_index
                                                  % Len(rainbow_token_types)) + 1])),
          last |-> CurrentRangeEnd(node)]

\* push_current_node(document, keys_to_highlight, builder, node, current_path,
\* lastPushedPosition)
push_current_node(document, keys, node, current_path, pushed) ==
    PushCurrentAt(document, node,
                  HighlightIndex(keys, get_path_signature(Reversed(current_path))),
                  Len(keys), pushed)

\* push_node_tokens on the node at n of the record, and its loop over the
\* children from the p-th on.
RECURSIVE push_node_tokens(_, _, _, _, _, _), PushChildren(_, _, _, _, _, _, _)
push_node_tokens(document, keys, record, n, path, pushed) ==
    IF record[n].parent_key # NullString
    THEN PushChildren(document, keys, record, n, 1, Append(path, record[n].parent_key),
             push_current_node(document, keys, record[n],
                               Append(path, record[n].parent_key), pushed))
    ELSE PushChildren(document, keys, record, n, 1, path, pushed)

PushChildren(document, keys, record, n, p, path, pushed) ==
    IF p > Len(record[n].children) THEN pushed
    ELSE PushChildren(document, keys, record, n, p + 1, path,
             push_node_tokens(document, keys, record, record[n].children[p], path,
                              pushed))

\* provideDocumentRangeSemanticTokens, its loop over the records
RECURSIVE PushRecords(_, _, _, _, _)
PushRecords(document, keys, parsed_records, k, pushed) ==
    IF k > Len(parsed_records) THEN pushed
    ELSE PushRecords(document, keys, parsed_records, k + 1,
             push_node_tokens(document, keys, parsed_records[k], 1, << >>, pushed))

\* keys_to_highlight.map(path => get_path_signature(path)): null for null
SignaturesOf(keys_list) ==
    [k \in 1..Len(keys_list) |-> get_path_signature(keys_list[k])]

\* One call of parse_json_objects as the editor sees it: who made it, on
\* which lines, and whether it threw.
ParseMade(by, window, thrown) ==
    [by |-> by, line_nums |-> window.line_nums, threw |-> thrown # NoError]

\* Variant of get_keys_to_highlight: the list is computed at every call,
\* whether the map has an entry for the file name or not.
get_keys_to_highlight_Recomputed(document, file, entry) ==
    IF file = << >> THEN [entry |-> entry, keys |-> << >>, parsed |-> << >>]
    ELSE CHOOSE got \in
            {[entry |-> [has |-> TRUE,
                         keys |-> keys_to_highlight(FrequencyStats(whole.records,
                                                                   whole.error))],
              keys |-> SignaturesOf(keys_to_highlight(FrequencyStats(whole.records,
                                                                     whole.error))),
              parsed |-> <<ParseMade("calculate_key_frequency_stats",
                                     WholeDocument(document), whole.error)>>] :
                whole \in {parse_json_objects(WholeDocument(document).lines,
                                              WholeDocument(document).line_nums)}} : TRUE

\* get_keys_to_highlight(document) on the entry of the map for the file
\* name: the entry it leaves, the signatures it returns and the parses made.
get_keys_to_highlight(document, file, entry) ==
    IF file = << >> THEN [entry |-> entry, keys |-> << >>, parsed |-> << >>]
    ELSE IF ~entry.has
    THEN CHOOSE got \in
            {[entry |-> [has |-> TRUE,
                         keys |-> keys_to_highlight(FrequencyStats(whole.records,
                                                                   whole.error))],
              keys |-> SignaturesOf(keys_to_highlight(FrequencyStats(whole.records,
                                                                     whole.error))),
              parsed |-> <<ParseMade("calculate_key_frequency_stats",
                                     WholeDocument(document), whole.error)>>] :
                whole \in {parse_json_objects(WholeDocument(document).lines,
                                              WholeDocument(document).line_nums)}} : TRUE
    ELSE [entry |-> entry, keys |-> SignaturesOf(entry.keys), parsed |-> << >>]

\* provideDocumentRangeSemanticTokens once parse_json_objects has ended on
\* the lines of parsing_range: no token if it threw, and otherwise the tokens
\* of the records and the ambient tokens between and after them.
TokensBuilt(document, keys, parsing_range, parsed) ==
    IF parsed.error # NoError THEN << >>
    ELSE CHOOSE built \in
            {push_ambient_tokens_between_positions(document, pushed.last,
                                                   parsing_range.end, pushed.built) :
                pushed \in {PushRecords(document, keys, parsed.records, 1,
                                        [built |-> << >>,
                                         last |-> parsing_range.start])}} : TRUE

\* Variant of provideDocumentRangeSemanticTokens once the keys are at hand:
\* parse_json_objects is called outside of any try, and what it throws
\* reaches the caller.
ProvideWithKeys_NoCatch(document, got, parsing_range) ==
    IF got.keys = << >> \/ \A k \in 1..Len(got.keys) : got.keys[k] = NullString
    THEN [entry |-> got.entry, returns |-> "tokens", tokens |-> << >>,
          parsed |-> got.parsed]
    ELSE CHOOSE provided \in
            {[entry |-> got.entry,
              returns |-> IF parsed.error # NoError THEN "thrown" ELSE "tokens",
              tokens |-> TokensBuilt(document, got.keys, parsing_range, parsed),
              parsed |-> Append(got.parsed,
                                ParseMade("provideDocumentRangeSemanticTokens",
                                          LinesOfRange(document, parsing_range),
                                          parsed.error))] :
                parsed \in {parse_json_objects(
                               LinesOfRange(document, parsing_range).lines,
                               LinesOfRange(document, parsing_range).line_nums)}} : TRUE

\* provideDocumentRangeSemanticTokens once the keys are at hand
ProvideWithKeys(document, got, parsing_range) ==
    IF got.keys = << >> \/ \A k \in 1..Len(got.keys) : got.keys[k] = NullString
    THEN [entry |-> got.entry, returns |-> "tokens", tokens |-> << >>,
          parsed |-> got.parsed]
    ELSE CHOOSE provided \in
            {[entry |-> got.entry, returns |-> "tokens",
              tokens |-> TokensBuilt(document, got.keys, parsing_range, parsed),
              parsed |-> Append(got.parsed,
                                ParseMade("provideDocumentRangeSemanticTokens",
                                          LinesOfRange(document, parsing_range),
                                          parsed.error))] :
                parsed \in {parse_json_objects(
                               LinesOfRange(document, parsing_range).lines,
                               LinesOfRange(document, parsing_range).line_nums)}} : TRUE

\* provideDocumentRangeSemanticTokens(document, range, _token): the entry of
\* the map it leaves, what it returns, and the parses it made.
provideDocumentRangeSemanticTokens(document, file, entry, languageId, range) ==
    IF languageId # "json" /\ languageId # "jsonl"
    THEN [entry |-> entry, returns |-> "null", tokens |-> << >>, parsed |-> << >>]
    ELSE CHOOSE provided \in
            {ProvideWithKeys(document, got, extend_range_by_margin(document, range, 100)) :
                got \in {get_keys_to_highlight(document, file, entry)}} : TRUE

\* The document the editor shows when the commands are run.
CommandDocs ==
    {<<<<"{", "\"", "a", "\"", ":", " ", "{", "\"", "b", "\"", ":", " ", "1", "}", ",",
         " ", "\"", "b", "\"", ":", " ", "2", "}">>>>}

InitCommands ==
    /\ doc \in CommandDocs
    /\ fileName \in FileNames
    /\ per_doc_reversed_keys_to_highlight = NoEntry
    /\ rainbow_token_event = NullInt
    /\ registrations = {}
    /\ registrations_made = 0
    /\ handler_log = << >>
    /\ global_tokens = NoGlobal
    /\ calls = << >>
    /\ lines = << >>
    /\ line_nums = << >>
    /\ pc = "loaded"
    /\ i = 0
    /\ tokens = << >>
    /\ token_idx = 0
    /\ result = << >>
    /\ stack = << >>
    /\ token_object_groups = << >>
    /\ group_idx = 0
    /\ pda_stack = << >>
    /\ nodes = << >>
    /\ records = << >>
    /\ returned = << >>
    /\ error = NoError

NextCommands ==
    \/ Activate
    \/ Enable
    \/ Disable
    \/ ToggleKeyHighlight

SpecCommands == InitCommands /\ [][NextCommands]_vars

\* document.languageId of the document the provider is called for
LanguageIds == {"json", "jsonl", "plaintext"}

\* The ranges the editor asks the tokens of: from the start of a line of
\* the document to the end of the same or a later line.
VisibleRanges(document) ==
    UNION {{Range(Position(first - 1, 0), Position(last - 1, Len(document[last]))) :
               last \in first..Len(document)} : first \in 1..Len(document)}

\* The editor calls provideDocumentRangeSemanticTokens of the registered
\* provider for a range of the document it shows.
ProvideDocumentRangeSemanticTokens ==
    /\ pc \in {"enabled", "toggled"}
    /\ registrations # {}
    /\ \E languageId \in LanguageIds :
         \E range \in VisibleRanges(doc) :
           \E provided \in {provideDocumentRangeSemanticTokens(doc, fileName,
                               per_doc_reversed_keys_to_highlight, languageId, range)} :
              /\ per_doc_reversed_keys_to_highlight' = provided.entry
              /\ handler_log' =
                    Logged([HandlerRun("provideDocumentRangeSemanticTokens") EXCEPT
                               !.languageId = languageId,
                               !.parsed = provided.parsed,
                               !.returns = provided.returns,
                               !.tokens = provided.tokens])
    /\ UNCHANGED <<provider_vars, fileName, pc, parser_vars>>

\* A record of a dataset, with the keys a and b.
RecordLine == <<"{", "\"", "a", "\"", ":", "1", ",", "\"", "b", "\"", ":", "2", "}">>

\* The lines of the documents the provider is asked about: the record, a
\* line the tokenizer throws on and a line the parser throws on.
ProviderLineTexts == {RecordLine, <<"@">>, <<"{", "\"", "a", "\"", "}">>}

\* The documents the provider is asked about: they start with the record.
ProviderDocs ==
    {document \in SeqsUpTo(ProviderLineTexts, MaxProviderLines) \ {<< >>} :
        document[1] = RecordLine}

\* The user edits the document the editor shows.
EditShownDocument ==
    /\ pc # "loaded"
    /\ doc' \in (Edits(doc) \cap ProviderDocs) \ {doc}
    /\ UNCHANGED <<provider_vars, handler_log, fileName,
                   per_doc_reversed_keys_to_highlight, global_tokens, calls,
                   lines, line_nums, pc, i, tokens, token_idx, result, stack,
                   token_object_groups, group_idx, pda_stack, nodes, records, returned,
                   error>>

InitProvider ==
    /\ doc \in ProviderDocs
    /\ fileName \in FileNames
    /\ per_doc_reversed_keys_to_highlight = NoEntry
    /\ rainbow_token_event = NullInt
    /\ registrations = {}
    /\ registrations_made = 0
    /\ handler_log = << >>
    /\ global_tokens = NoGlobal
    /\ calls = << >>
    /\ lines = << >>
    /\ line_nums = << >>
    /\ pc = "loaded"
    /\ i = 0
    /\ tokens = << >>
    /\ token_idx = 0
    /\ result = << >>
    /\ stack = << >>
    /\ token_object_groups = << >>
    /\ group_idx = 0
    /\ pda_stack = << >>
    /\ nodes = << >>
    /\ records = << >>
    /\ returned = << >>
    /\ error = NoError

NextProvider ==
    \/ Activate
    \/ ToggleKeyHighlight
    \/ ProvideDocumentRangeSemanticTokens
    \/ EditShownDocument

SpecProvider == InitProvider /\ [][NextProvider]_vars

(***************************************************************************)
(* The toggles of a session on a document with nine key paths: the state   *)
(* the session starts from is the one activate and the first call of the   *)
(* provider leave.                                                         *)
(***************************************************************************)
\* The text of a member "key": 1 of an object.
MemberText(key) == <<"\"", key, "\"", ":", "1">>

\* The text of an object with the given keys, each with the value 1, and
\* with the given text before the closing brace.
RECURSIVE ObjectText(_, _)
ObjectText(keys, last_member) ==
    IF keys = << >> THEN <<"{">> \o last_member \o <<"}">>
    ELSE <<"{">> \o MemberText(keys[1]) \o <<",">>
            \o Tail(ObjectText(Tail(keys), last_member))

\* A record with the keys a to g and under the key h an object with the
\* key a: nine key paths.
NineKeyPaths ==
    ObjectText(<<"a", "b", "c", "d", "e", "f", "g">>,
               <<"\"", "h", "\"", ":">> \o ObjectText(<< >>, MemberText("a")))

\* The documents the keys are toggled on: the record alone, no key path of
\* which occurs twice, and the record followed by one that repeats five of
\* its keys.
ToggleDocs ==
    {<<NineKeyPaths>>,
     <<NineKeyPaths, ObjectText(<<"a", "b", "c", "d">>, MemberText("e"))>>}

\* The run of the provider on the whole of a document of language json
\* that has no entry in the map yet.
FirstProvided(document, file) ==
    provideDocumentRangeSemanticTokens(document, file, NoEntry, "json",
        Range(Position(0, 0),
              Position(Len(document) - 1, Len(document[Len(document)]))))

\* activate has registered the provider and the editor has called it once
\* for the document.
InitToggles ==
    /\ doc \in ToggleDocs
    /\ fileName \in FileNames
    /\ per_doc_reversed_keys_to_highlight = FirstProvided(doc, fileName).entry
    /\ rainbow_token_event = 1
    /\ registrations = {1}
    /\ registrations_made = 1
    /\ handler_log =
          <<HandlerRun("activate"),
            [HandlerRun("provideDocumentRangeSemanticTokens") EXCEPT
                !.languageId = "json",
                !.parsed = FirstProvided(doc, fileName).parsed,
                !.returns = FirstProvided(doc, fileName).returns,
                !.tokens = FirstProvided(doc, fileName).tokens]>>
    /\ global_tokens = NoGlobal
    /\ calls = << >>
    /\ lines = << >>
    /\ line_nums = << >>
    /\ pc = "enabled"
    /\ i = 0
    /\ tokens = << >>
    /\ token_idx = 0
    /\ result = << >>
    /\ stack = << >>
    /\ token_object_groups = << >>
    /\ group_idx = 0
    /\ pda_stack = << >>
    /\ nodes = << >>
    /\ records = << >>
    /\ returned = << >>
    /\ error = NoError

SpecToggles == InitToggles /\ [][ToggleKeyHighlight]_vars

(***************************************************************************)
(* Reference notions the properties below are stated with.  None of them   *)
(* is taken from the parser: brackets are matched by counting, and well-   *)
(* formed text is recognized by recursive descent on the JSON grammar.     *)
(***************************************************************************)
Openers == {<<"{">>, <<"[">>}
Closers == {<<"}">>, <<"]">>}
ScalarTypes == {"String", "Number", "Constant"}

\* The zero-based indices of a token sequence.
Indices(toks) == 0..(Len(toks) - 1)

IsOpenerAt(toks, k) == TokenAt(toks, k).value \in Openers /\ TokenAt(toks, k).token_type = "Punctuation"
IsCloserAt(toks, k) == TokenAt(toks, k).value \in Closers /\ TokenAt(toks, k).token_type = "Punctuation"

\* The closer that ends a container, found by counting: going right from
\* token j with depth containers open, the closer that brings the count to 0;
\* NullInt when the tokens run out first.
RECURSIVE ScanToClose(_, _, _)
ScanToClose(toks, j, depth) ==
    IF j >= Len(toks) THEN NullInt
    ELSE IF IsOpenerAt(toks, j) THEN ScanToClose(toks, j + 1, depth + 1)
    ELSE IF IsCloserAt(toks, j)
         THEN IF depth = 1 THEN j ELSE ScanToClose(toks, j + 1, depth - 1)
    ELSE ScanToClose(toks, j + 1, depth)

\* The closer that ends the container opened at k; NullInt when there is none.
CloserOf(toks, k) == ScanToClose(toks, k + 1, 1)

\* The containers closed inside the token sequence, as <<opener, closer>>.
Spans(toks) ==
    {<<k, CloserOf(toks, k)>> :
        k \in {o \in Indices(toks) : IsOpenerAt(toks, o) /\ CloserOf(toks, o) # NullInt}}

\* The openers that are never closed, and the closers that close nothing.
UnclosedOpeners(toks) ==
    {k \in Indices(toks) : IsOpenerAt(toks, k) /\ CloserOf(toks, k) = NullInt}
UnmatchedClosers(toks) ==
    {j \in Indices(toks) : IsCloserAt(toks, j)} \ {s[2] : s \in Spans(toks)}

Encloses(outer, inner) == outer[1] < inner[1] /\ inner[2] < outer[2]

\* The spans of a set that no other span of the set encloses.
Outermost(spans) == {s \in spans : \A t \in spans : ~Encloses(t, s)}

\* A pair of brackets of different kinds: an opener closed by the other closer.
Mismatched(toks, s) ==
    (TokenAt(toks, s[1]).value = <<"{">>) # (TokenAt(toks, s[2]).value = <<"}">>)

\* The first closer, in source order, that closes an opener of the other kind.
FirstMismatchedCloser(toks) ==
    LET bad == {s[2] : s \in {t \in Spans(toks) : Mismatched(toks, t)}}
    IN  IF bad = {} THEN NullInt
        ELSE CHOOSE j \in bad : \A other \in bad : j <= other

\* The JSON grammar by recursive descent.  Each operator answers for the text
\* that starts at token k: that it is accepted and where it ends (at is the
\* index just past it), or the first token the grammar forbids (at) and what
\* the grammar expected there.  at = Len(toks) when the tokens run out.
Accept(k) == [ok |-> TRUE, at |-> k, expected |-> "nothing"]
Forbid(k, expected) == [ok |-> FALSE, at |-> k, expected |-> expected]

Is(toks, k, value) == k < Len(toks) /\ TokenAt(toks, k).value = value
                        /\ TokenAt(toks, k).token_type = "Punctuation"
IsString(toks, k) == k < Len(toks) /\ TokenAt(toks, k).token_type = "String"
IsScalar(toks, k) == k < Len(toks) /\ TokenAt(toks, k).token_type \in ScalarTypes

RECURSIVE GrammarValue(_, _), GrammarMembers(_, _), GrammarElements(_, _)
\* value: scalar | '{' '}' | '{' members '}' | '[' ']' | '[' elements ']'
GrammarValue(toks, k) ==
    IF IsScalar(toks, k) THEN Accept(k + 1)
    ELSE IF Is(toks, k, <<"{">>)
    THEN IF Is(toks, k + 1, <<"}">>) THEN Accept(k + 2) ELSE GrammarMembers(toks, k + 1)
    ELSE IF Is(toks, k, <<"[">>)
    THEN IF Is(toks, k + 1, <<"]">>) THEN Accept(k + 2) ELSE GrammarElements(toks, k + 1)
    ELSE Forbid(k, "value")

\* members '}': String ':' value (',' String ':' value)* '}'
GrammarMembers(toks, k) ==
    IF ~IsString(toks, k) THEN Forbid(k, "key")
    ELSE IF ~Is(toks, k + 1, <<":">>) THEN Forbid(k + 1, "colon")
    ELSE LET v == GrammarValue(toks, k + 2)
         IN  IF ~v.ok THEN v
             ELSE IF Is(toks, v.at, <<",">>) THEN GrammarMembers(toks, v.at + 1)
             ELSE IF Is(toks, v.at, <<"}">>) THEN Accept(v.at + 1)
             ELSE Forbid(v.at, "comma")

\* elements ']': value (',' value)* ']'
GrammarElements(toks, k) ==
    LET v == GrammarValue(toks, k)
    IN  IF ~v.ok THEN v
        ELSE IF Is(toks, v.at, <<",">>) THEN GrammarElements(toks, v.at + 1)
        ELSE IF Is(toks, v.at, <<"]">>) THEN Accept(v.at + 1)
        ELSE Forbid(v.at, "comma")

\* The tokens are exactly one JSON value.
IsJsonValue(toks) == toks # << >> /\ GrammarValue(toks, 0) = Accept(Len(toks))

\* The literal texts of the tokens.
Values(toks) == [k \in 1..Len(toks) |-> toks[k].value]

\* The token texts a tree is written with: node n of the table, and its
\* children from the p-th on.
RECURSIVE Unparse(_, _), UnparseChildren(_, _, _)
Unparse(record, n) ==
    CASE record[n].node_type = SCALAR_NODE_TYPE -> <<record[n].value>>
      [] record[n].node_type = OBJECT_NODE_TYPE ->
            <<(<<"{">>)>> \o UnparseChildren(record, n, 1) \o <<(<<"}">>)>>
      [] record[n].node_type = ARRAY_NODE_TYPE ->
            <<(<<"[">>)>> \o UnparseChildren(record, n, 1) \o <<(<<"]">>)>>

UnparseChildren(record, n, p) ==
    IF p > Len(record[n].children) THEN << >>
    ELSE LET child == record[n].children[p]
         IN  (IF p > 1 THEN <<(<<",">>)>> ELSE << >>)
             \o (IF record[n].node_type = OBJECT_NODE_TYPE
                 THEN <<record[child].parent_key, <<":">>>> ELSE << >>)
             \o Unparse(record, child)
             \o UnparseChildren(record, n, p + 1)

\* The call has ended, one way or the other.
Ended == pc \in {"returned", "thrown"}

\* The tokens of the window: what the tokenizer makes of its lines.
WindowTokens == TokenizeLines(lines, line_nums, 0, << >>)

(***************************************************************************)
(* C1.  A well-formed JSON object or array on a single line is parsed to   *)
(* exactly one root, of relative_depth 0, whose tree written back token by *)
(* token is the input: same nesting, same keys in declaration order, same  *)
(* scalar literals in order.                                               *)
(***************************************************************************)
WellFormedContainerLine ==
    /\ Len(lines) = 1
    /\ WindowTokens.error = NoError
    /\ IsJsonValue(WindowTokens.tokens)
    /\ IsOpenerAt(WindowTokens.tokens, 0)

C1_SingleLineRoundTrip ==
    (Ended /\ WellFormedContainerLine) =>
        /\ pc = "returned"
        /\ Len(returned) = 1
        /\ returned[1][1].relative_depth = 0
        /\ Unparse(returned[1], 1) = Values(WindowTokens.tokens)

\* Reached: an object with two different keys and a nested array came back.
C1_Witness ==
    /\ pc = "returned"
    /\ WellFormedContainerLine
    /\ Len(returned) = 1
    /\ Len(returned[1][1].children) = 2
    /\ returned[1][returned[1][1].children[1]].parent_key
         # returned[1][returned[1][1].children[2]].parent_key
    /\ \E n \in 2..Len(returned[1]) : returned[1][n].node_type = ARRAY_NODE_TYPE

(***************************************************************************)
(* Documents and windows.                                                  *)
(***************************************************************************)
\* The tokens of the whole document, its lines numbered from 0 as
\* parse_document_range numbers them.
DocTokens == TokenizeLines(doc, [k \in 1..Len(doc) |-> k - 1], 0, << >>)

\* A JSON document (one value) or a JSON-Lines document (one value on every
\* line that is not blank).
WellFormedDoc ==
    /\ DocTokens.error = NoError
    /\ \/ IsJsonValue(DocTokens.tokens)
       \/ \A l \in 1..Len(doc) :
            LET line_tokens == tokenize_json_line(doc[l], l - 1).tokens
            IN  line_tokens = << >> \/ IsJsonValue(line_tokens)

\* The line numbers of the window, and the document tokens that lie in it.
WindowLineNums == {line_nums[k] : k \in 1..Len(line_nums)}
InWindow(k) == TokenAt(DocTokens.tokens, k).line_num \in WindowLineNums

\* The position of a token.
PositionOf(toks, k) == Position(TokenAt(toks, k).line_num, TokenAt(toks, k).position)

\* The containers of the document that lie entirely inside the window.
ContainersInWindow == {s \in Spans(DocTokens.tokens) : InWindow(s[1]) /\ InWindow(s[2])}

\* From where to where a container of the document, or a returned root, goes.
Extent(toks, s) == <<PositionOf(toks, s[1]), PositionOf(toks, s[2])>>
ReturnedExtents ==
    {<<returned[k][1].start_position, returned[k][1].end_position>> :
        k \in 1..Len(returned)}

(***************************************************************************)
(* C2.  For every contiguous window of lines of a well-formed JSON or      *)
(* JSON-Lines document the call raises no error and returns exactly the    *)
(* containers of the document that lie entirely inside the window and are  *)
(* enclosed by no other container lying entirely inside the window.        *)
(***************************************************************************)
C2_WindowRecords ==
    (Ended /\ WellFormedDoc) =>
        /\ pc = "returned"
        /\ ReturnedExtents =
             {Extent(DocTokens.tokens, s) : s \in Outermost(ContainersInWindow)}
        /\ Len(returned) = Cardinality(Outermost(ContainersInWindow))

\* Reached: a window cut out of the middle of a document, which starts with
\* closers of containers opened before it, ends in a container that is not
\* closed in it, and holds a container nested in a returned one.
C2_Witness ==
    /\ pc = "returned"
    /\ WellFormedDoc
    /\ Len(lines) < Len(doc)
    /\ UnmatchedClosers(tokens) # {}
    /\ UnclosedOpeners(tokens) # {}
    /\ Len(returned) >= 2
    /\ ContainersInWindow # Outermost(ContainersInWindow)

(***************************************************************************)
(* C3.  A window that begins inside an object one level deep (the object's *)
(* opening brace lies before the window) and holds a fully closed object   *)
(* directly inside it.                                                     *)
(***************************************************************************)
\* The openers before the window whose container is still open where the
\* window begins.
OpenAtWindowStart ==
    {k \in Indices(DocTokens.tokens) :
        /\ IsOpenerAt(DocTokens.tokens, k)
        /\ TokenAt(DocTokens.tokens, k).line_num < line_nums[1]
        /\ \/ CloserOf(DocTokens.tokens, k) = NullInt
           \/ TokenAt(DocTokens.tokens, CloserOf(DocTokens.tokens, k)).line_num
                >= line_nums[1]}

BeginsInsideObject ==
    /\ Len(lines) > 0
    /\ Cardinality(OpenAtWindowStart) = 1
    /\ \A k \in OpenAtWindowStart : TokenAt(DocTokens.tokens, k).value = <<"{">>

\* The objects closed inside the window that lie directly in the object the
\* window begins in.
InnerObjects ==
    {s \in ContainersInWindow :
        /\ TokenAt(DocTokens.tokens, s[1]).value = <<"{">>
        /\ \A t \in Spans(DocTokens.tokens) :
              Encloses(t, s) => t[1] \in OpenAtWindowStart}

\* The inner object is a returned root of relative_depth at least 1.
ReportedDeep(s) ==
    \E k \in 1..Len(returned) :
        /\ returned[k][1].start_position = PositionOf(DocTokens.tokens, s[1])
        /\ returned[k][1].end_position = PositionOf(DocTokens.tokens, s[2])
        /\ returned[k][1].relative_depth >= 1

\* The closing brace of the object the window begins in lies in the window.
EnclosingCloserInWindow ==
    \A k \in OpenAtWindowStart :
        /\ CloserOf(DocTokens.tokens, k) # NullInt
        /\ InWindow(CloserOf(DocTokens.tokens, k))

\* C3 as claimed: every such window reports the inner object with
\* relative_depth >= 1.
C3_AsClaimed ==
    (Ended /\ WellFormedDoc /\ BeginsInsideObject) =>
        /\ pc = "returned"
        /\ \A s \in InnerObjects : ReportedDeep(s)

\* C3 as amended: the inner object is reported with relative_depth >= 1 when
\* the window also holds the closing brace of the object it begins in; the
\* parser counts the brackets of the window only.
C3_DepthWhenCloserInWindow ==
    (Ended /\ WellFormedDoc /\ BeginsInsideObject /\ EnclosingCloserInWindow) =>
        /\ pc = "returned"
        /\ \A s \in InnerObjects : ReportedDeep(s)

C3_Witness ==
    /\ pc = "returned"
    /\ WellFormedDoc /\ BeginsInsideObject /\ EnclosingCloserInWindow
    /\ InnerObjects # {}

(***************************************************************************)
(* C4.  The relative_depth of every returned group is the number of        *)
(* openers before its first token that are never closed in the window plus *)
(* the number of closers after its last token that close nothing in the    *)
(* window, and at most one of the two is not zero.  A group is created     *)
(* with the depth of the stack after the pop: a child kept by the p-th     *)
(* frame has depth p, and a top-level group has the number of closers      *)
(* met with an empty stack since.                                          *)
(***************************************************************************)
OpenersBefore(unclosed, group) ==
    Cardinality({k \in unclosed : k < group.first_token_idx})
ClosersAfter(unmatched, group) ==
    Cardinality({j \in unmatched : j > group.last_token_idx})

\* The tokens the grouping pass has gone through.
Scanned == SubSeq(tokens, 1, token_idx)

C4_RelativeDepth ==
    /\ pc = "group" =>
         LET unmatched == UnmatchedClosers(Scanned)
         IN  /\ \A p \in 1..Len(stack) :
                  \A c \in 1..Len(stack[p].complete_children_groups) :
                     stack[p].complete_children_groups[c].relative_depth = p
             /\ \A k \in 1..Len(result) :
                  result[k].relative_depth = ClosersAfter(unmatched, result[k])
    /\ pc \in {"records", "consume", "consumed", "returned"} =>
         LET unclosed == UnclosedOpeners(tokens)
             unmatched == UnmatchedClosers(tokens)
         IN  \A k \in 1..Len(token_object_groups) :
                LET group == token_object_groups[k]
                IN  /\ group.relative_depth
                         = OpenersBefore(unclosed, group) + ClosersAfter(unmatched, group)
                    /\ \/ OpenersBefore(unclosed, group) = 0
                       \/ ClosersAfter(unmatched, group) = 0

\* Reached: in one window a group two closers deep and a group two openers deep.
C4_Witness ==
    /\ pc = "returned"
    /\ \E k \in 1..Len(token_object_groups) :
          /\ token_object_groups[k].relative_depth = 2
          /\ ClosersAfter(UnmatchedClosers(tokens), token_object_groups[k]) = 2
    /\ \E k \in 1..Len(token_object_groups) :
          /\ token_object_groups[k].relative_depth = 2
          /\ OpenersBefore(UnclosedOpeners(tokens), token_object_groups[k]) = 2

(***************************************************************************)
(* C5.  In the grouping pass a closer met while the stack is empty adds    *)
(* exactly 1 to the relative_depth of every group already in the result    *)
(* list and changes nothing else: the stack stays empty, the groups keep   *)
(* their token indices, and a group that joins the result list later       *)
(* starts at depth 0 whatever closers came before it.                      *)
(***************************************************************************)
CloserOnEmptyStack ==
    /\ pc = "group"
    /\ token_idx < Len(tokens)
    /\ isContainerClose(TokenAt(tokens, token_idx))
    /\ stack = << >>

C5_CloserOnEmptyStack ==
    [][/\ CloserOnEmptyStack =>
            /\ Len(result') = Len(result)
            /\ \A k \in 1..Len(result) :
                  /\ result'[k].relative_depth = result[k].relative_depth + 1
                  /\ result'[k].first_token_idx = result[k].first_token_idx
                  /\ result'[k].last_token_idx = result[k].last_token_idx
            /\ stack' = << >>
            /\ token_idx' = token_idx + 1
            /\ UNCHANGED <<provider_vars, handler_log, fileName, per_doc_reversed_keys_to_highlight,
                   global_tokens, calls,
                   doc, lines, line_nums, pc, i, tokens, token_object_groups,
                           group_idx, pda_stack, nodes, records, returned, error>>
       /\ (pc = "group" /\ pc' = "group" /\ Len(result') > Len(result)) =>
            /\ Len(result') = Len(result) + 1
            /\ result'[Len(result')].relative_depth = 0
            /\ SubSeq(result', 1, Len(result)) = result
      ]_vars

\* Reached: a closer is about to be met with an empty stack, after an earlier
\* one raised the first group and before a later group joined untouched.
C5_Witness ==
    /\ CloserOnEmptyStack
    /\ Len(result) >= 2
    /\ result[1].relative_depth >= 1
    /\ result[Len(result)].relative_depth = 0

(***************************************************************************)
(* C6.  A closer whose kind differs from the opener it closes makes the    *)
(* call raise JsonSyntaxError with the line and the column of that closer, *)
(* wherever in the window the pair lies: after complete records, after     *)
(* closers that close nothing, inside a container that is never closed.    *)
(***************************************************************************)
LexedWindow == WindowTokens.error = NoError

C6_MismatchedCloser ==
    (Ended /\ LexedWindow /\ FirstMismatchedCloser(WindowTokens.tokens) # NullInt) =>
        LET closer == TokenAt(WindowTokens.tokens, FirstMismatchedCloser(WindowTokens.tokens))
        IN  /\ pc = "thrown"
            /\ error = JsonSyntaxError(closer.line_num, closer.position)

\* Reached: the error of a mismatched pair that follows a complete record.
C6_Witness ==
    /\ pc = "thrown"
    /\ LexedWindow
    /\ FirstMismatchedCloser(tokens) # NullInt
    /\ error.name = "JsonSyntaxError"
    /\ result # << >>
    /\ token_idx = FirstMismatchedCloser(tokens)

(***************************************************************************)
(* C7.  When tokenizing a line, the grouping pass or the parse of a record *)
(* raises JsonTokenizerError or JsonSyntaxError, the call raises that      *)
(* error and returns no record, not even the well-formed records that      *)
(* come before the failing place; a call that raised does nothing more.    *)
(***************************************************************************)
\* The errors of the groups of a window, in the order of the groups.
RecordErrors(toks, groups) ==
    [k \in 1..Len(groups) |-> consume_json_record(toks, groups[k].first_token_idx).error]

\* The first error raised on the way, NoError when there is none.
FirstRaised ==
    IF WindowTokens.error # NoError THEN WindowTokens.error
    ELSE LET grouped == group_tokens_into_full_object_groups(WindowTokens.tokens)
             errors == RecordErrors(WindowTokens.tokens, grouped.result)
             failing == {k \in 1..Len(errors) : errors[k] # NoError}
         IN  IF grouped.error # NoError THEN grouped.error
             ELSE IF failing = {} THEN NoError
             ELSE errors[CHOOSE k \in failing : \A other \in failing : k <= other]

C7_NoPartialResult ==
    /\ [](pc = "thrown" => returned = << >>)
    /\ []((Ended /\ FirstRaised.name \in {"JsonTokenizerError", "JsonSyntaxError"}) =>
            /\ pc = "thrown"
            /\ error = FirstRaised
            /\ returned = << >>)
    /\ [][pc # "thrown"]_vars

\* Reached: the call raised a syntax error after it had built a record.
C7_Witness ==
    /\ pc = "thrown"
    /\ error.name = "JsonSyntaxError"
    /\ records # << >>
    /\ returned = << >>

(***************************************************************************)
(* C8.  In a complete span a closer that directly follows a comma makes    *)
(* the call raise JsonSyntaxError: no tree comes back in which the         *)
(* trailing comma was accepted.                                            *)
(***************************************************************************)
\* The commas of a complete span that a closer of the span directly follows.
TrailingCommas(toks) ==
    {k \in Indices(toks) :
        /\ Is(toks, k, <<",">>)
        /\ k + 1 < Len(toks) /\ IsCloserAt(toks, k + 1)
        /\ \E s \in Spans(toks) : s[1] < k /\ k + 1 <= s[2]}

C8_TrailingComma ==
    (Ended /\ LexedWindow /\ TrailingCommas(WindowTokens.tokens) # {}) =>
        /\ pc = "thrown"
        /\ error.name = "JsonSyntaxError"
        /\ returned = << >>

\* Reached: the error raised at the closer after a trailing comma, the member
\* before the comma already in the tree.
C8_Witness ==
    /\ pc = "thrown"
    /\ LexedWindow
    /\ token_idx - 1 \in TrailingCommas(tokens)
    /\ error = JsonSyntaxError(TokenAt(tokens, token_idx).line_num,
                               TokenAt(tokens, token_idx).position)
    /\ Len(nodes) >= 2

(***************************************************************************)
(* C9.  In a complete span a missing colon after a key, or a missing comma *)
(* between two members of an object or two elements of an array, makes the *)
(* call raise JsonSyntaxError with the line and the column of the first    *)
(* token the grammar forbids: the token that stands where the colon or the *)
(* comma was expected.                                                     *)
(***************************************************************************)
\* The complete spans of a window in which no closer is mismatched, and
\* what the grammar says of each.
CompleteSpans(toks) == Outermost(Spans(toks))
Verdict(toks, s) == GrammarValue(toks, s[1])

\* The first complete span the grammar refuses, when there is one.
RefusedSpans(toks) == {s \in CompleteSpans(toks) : ~Verdict(toks, s).ok}
FirstRefused(toks) ==
    CHOOSE s \in RefusedSpans(toks) : \A other \in RefusedSpans(toks) : s[1] <= other[1]

MissingColonOrComma ==
    /\ LexedWindow
    /\ FirstMismatchedCloser(WindowTokens.tokens) = NullInt
    /\ RefusedSpans(WindowTokens.tokens) # {}
    /\ Verdict(WindowTokens.tokens, FirstRefused(WindowTokens.tokens)).expected
         \in {"colon", "comma"}

C9_MissingColonOrComma ==
    (Ended /\ MissingColonOrComma) =>
        LET at == Verdict(WindowTokens.tokens, FirstRefused(WindowTokens.tokens)).at
            forbidden == TokenAt(WindowTokens.tokens, at)
        IN  /\ pc = "thrown"
            /\ error = JsonSyntaxError(forbidden.line_num, forbidden.position)

\* Reached: the error of a missing comma, raised at the key of the next member.
C9_Witness ==
    /\ pc = "thrown"
    /\ MissingColonOrComma
    /\ Verdict(tokens, FirstRefused(tokens)).expected = "comma"
    /\ TokenAt(tokens, token_idx).token_type = "String"
    /\ nodes[1].node_type = OBJECT_NODE_TYPE
    /\ error = JsonSyntaxError(TokenAt(tokens, token_idx).line_num,
                               TokenAt(tokens, token_idx).position)

(***************************************************************************)
(* C10.  The tokens that lie outside every complete container (before the  *)
(* first, between two, after the last, or in a container that is never     *)
(* closed in the window but outside its complete children) are not         *)
(* syntax-checked: with other tokens that are not brackets in their place  *)
(* the call returns the same trees with the same relative_depth and        *)
(* raises no error.                                                        *)
(***************************************************************************)
\* The tokens that are not brackets and lie in no complete container.
OutsideTokens(toks) ==
    {k \in Indices(toks) :
        /\ ~IsOpenerAt(toks, k) /\ ~IsCloserAt(toks, k)
        /\ \A s \in Spans(toks) : k < s[1] \/ s[2] < k}

\* The tokens a token is replaced by: a string, a number, a constant, a
\* colon and a comma.
Replacements ==
    {[value |-> <<"\"", "z", "\"">>, token_type |-> "String"],
     [value |-> <<"7">>, token_type |-> "Number"],
     [value |-> <<"n", "u", "l", "l">>, token_type |-> "Constant"],
     [value |-> <<":">>, token_type |-> "Punctuation"],
     [value |-> <<",">>, token_type |-> "Punctuation"]}

\* The tokens with those of the set where replaced by r, each at its place.
Replaced(toks, where, r) ==
    [k \in 1..Len(toks) |->
        IF k - 1 \in where
        THEN JsonToken(r.value, toks[k].line_num, toks[k].position, r.token_type)
        ELSE toks[k]]

C10_OutsideTokensIgnored ==
    pc = "returned" =>
        LET outside == OutsideTokens(tokens)
            same == [records |-> returned, error |-> NoError]
        IN  \A r \in Replacements :
               /\ ParseTokens(Replaced(tokens, outside, r)) = same
               /\ \A k \in outside : ParseTokens(Replaced(tokens, {k}, r)) = same

\* Reached: records came back from a window with tokens before the first
\* container, between two containers, and in a container that is never closed.
C10_Witness ==
    /\ pc = "returned"
    /\ Len(returned) >= 2
    /\ \E k \in OutsideTokens(tokens) : \A s \in Spans(tokens) : k < s[1]
    /\ \E k \in OutsideTokens(tokens) :
          /\ \E s \in Spans(tokens) : s[2] < k
          /\ \E s \in Spans(tokens) : k < s[1]
    /\ \E k \in OutsideTokens(tokens) : \E o \in UnclosedOpeners(tokens) : o < k

(***************************************************************************)
(* C11.  The call never raises JsonIncompleteError: every span handed to   *)
(* the structural parser is bracket-balanced, so the parser raises         *)
(* JsonSyntaxError or empties its stack before the tokens run out.         *)
(***************************************************************************)
\* The group the structural parser is at work on.
CurrentGroup == token_object_groups[group_idx + 1]

C11_NeverIncomplete ==
    /\ error.name # "JsonIncompleteError"
    /\ pc \in {"consume", "consumed"} =>
          CloserOf(tokens, CurrentGroup.first_token_idx) = CurrentGroup.last_token_idx
    /\ (pc = "consume" /\ token_idx >= Len(tokens)) => pda_stack = << >>

\* Reached: the structural parser emptied its stack on a nested record with
\* tokens of the window still ahead.
C11_Witness ==
    /\ pc = "consumed"
    /\ pda_stack = << >>
    /\ token_idx < Len(tokens)
    /\ Len(nodes) >= 3
    /\ UnclosedOpeners(tokens) # {}

(***************************************************************************)
(* C12.  The assertion of parse_json_objects never fails: for every group  *)
(* of the grouping pass, whenever consume_json_record started on the first *)
(* token of the group returns, the index it returns is the group's         *)
(* last_token_idx + 1; the two passes agree on the closer of a container.  *)
(***************************************************************************)
\* consume_json_record on the group stops just behind it, if it returns.
StopsBehind(toks, group) ==
    consume_json_record(toks, group.first_token_idx).error = NoError =>
        /\ consume_json_record(toks, group.first_token_idx).token_idx
             = group.last_token_idx + 1
        /\ consume_json_record(toks, group.first_token_idx).nodes # << >>

C12_AssertionHolds ==
    /\ error # AssertionError
    /\ pc = "consumed" =>
          /\ token_idx = CurrentGroup.last_token_idx + 1
          /\ nodes # << >>
    /\ (pc = "records" /\ group_idx = 0) =>
          \A k \in 1..Len(token_object_groups) :
             StopsBehind(tokens, token_object_groups[k])

\* Reached: consume_json_record returned from a later group of the window,
\* a container with containers of its own kind inside.
C12_Witness ==
    /\ pc = "consumed"
    /\ group_idx >= 1
    /\ token_idx = CurrentGroup.last_token_idx + 1
    /\ \E n \in 2..Len(nodes) :
          nodes[n].node_type = nodes[1].node_type /\ nodes[n].node_type # SCALAR_NODE_TYPE

(***************************************************************************)
(* C13.  For a window of lines that each hold one well-formed record or    *)
(* nothing, the call returns one root for each record, in the order of the *)
(* lines, and every position of a returned tree has for its line the       *)
(* number the caller gave for the line the token stands on, whether the    *)
(* numbers are contiguous, start at zero, or neither.                      *)
(***************************************************************************)
\* The tokens of the l-th line of the window, numbered as the caller says.
LineTokens(l) == tokenize_json_line(lines[l], line_nums[l]).tokens

\* The lines of the window that hold a record, in order.
RecordLines == SelectSeq([l \in 1..Len(lines) |-> l], LAMBDA l : LineTokens(l) # << >>)

\* One record or nothing on each line.
OneRecordPerLine ==
    \A l \in 1..Len(lines) :
        /\ tokenize_json_line(lines[l], line_nums[l]).error = NoError
        /\ LineTokens(l) = << >>
             \/ (IsJsonValue(LineTokens(l)) /\ IsOpenerAt(LineTokens(l), 0))

\* The lines of the positions of a tree.
PositionLines(record) ==
    UNION {{record[n].start_position.line, record[n].end_position.line}
              \cup (IF record[n].parent_key_position = NullPosition THEN {}
                    ELSE {record[n].parent_key_position.line}) :
           n \in 1..Len(record)}

C13_CallerLineNumbers ==
    (Ended /\ OneRecordPerLine) =>
        /\ pc = "returned"
        /\ Len(returned) = Len(RecordLines)
        /\ \A k \in 1..Len(RecordLines) :
              /\ Unparse(returned[k], 1) = Values(LineTokens(RecordLines[k]))
              /\ PositionLines(returned[k]) = {line_nums[RecordLines[k]]}

\* Reached: two records with a blank line between them, the line numbers
\* neither from zero, nor contiguous, nor increasing.
C13_Witness ==
    /\ pc = "returned"
    /\ Len(lines) = 3
    /\ lines[2] = << >>
    /\ line_nums = <<42, 1, 0>>
    /\ Len(returned) = 2
    /\ returned[1] # returned[2]

(***************************************************************************)
(* C14.  In every returned tree the i-th child of an ARRAY node, scalar or *)
(* container, has parent_array_index i (from 0) and no parent_key.         *)
(***************************************************************************)
ArrayChildrenIndexed(record) ==
    \A n \in 1..Len(record) :
        record[n].node_type = ARRAY_NODE_TYPE =>
            \A p \in 1..Len(record[n].children) :
                /\ record[record[n].children[p]].parent_array_index = p - 1
                /\ record[record[n].children[p]].parent_key = NullString

C14_ArrayIndices ==
    \A k \in 1..Len(returned) : ArrayChildrenIndexed(returned[k])

\* Reached: a returned array whose children are a container, index 0, and
\* a scalar, index 1.
C14_Witness ==
    /\ pc = "returned"
    /\ \E k \in 1..Len(returned) : \E n \in 1..Len(returned[k]) :
          /\ returned[k][n].node_type = ARRAY_NODE_TYPE
          /\ Len(returned[k][n].children) >= 2
          /\ returned[k][returned[k][n].children[1]].node_type # SCALAR_NODE_TYPE
          /\ returned[k][returned[k][n].children[2]].node_type = SCALAR_NODE_TYPE
          /\ returned[k][returned[k][n].children[2]].parent_array_index = 1

(***************************************************************************)
(* C15.  For every line that tokenizes, the position of each token is the  *)
(* offset at which its literal starts in the line, the positions increase  *)
(* strictly, the tokens do not overlap, and every character of the line    *)
(* that no token covers is whitespace; {"a": 1} gives 5 tokens at the      *)
(* columns 0, 1, 4, 6, 7.                                                  *)
(***************************************************************************)
\* The one line of the window has been tokenized.
LineTokenized == Len(lines) = 1 /\ i = 1

\* The offsets of the line the k-th token covers.
Covered(toks, k) == toks[k].position..(toks[k].position + Len(toks[k].value) - 1)

C15_TokenPositions ==
    LineTokenized =>
        /\ \A k \in 1..Len(tokens) :
              /\ tokens[k].value # << >>
              /\ tokens[k].position >= 0
              /\ tokens[k].position + Len(tokens[k].value) <= Len(lines[1])
              /\ SubSeq(lines[1], tokens[k].position + 1,
                        tokens[k].position + Len(tokens[k].value)) = tokens[k].value
        /\ \A k \in 1..(Len(tokens) - 1) :
              /\ tokens[k].position < tokens[k + 1].position
              /\ tokens[k].position + Len(tokens[k].value) <= tokens[k + 1].position
        /\ \A c \in 0..(Len(lines[1]) - 1) :
              (\A k \in 1..Len(tokens) : c \notin Covered(tokens, k)) =>
                  lines[1][c + 1] \in {" ", "\t"}
        /\ lines[1] = TokenPositionsLine =>
              [k \in 1..Len(tokens) |-> tokens[k].position] = <<0, 1, 4, 6, 7>>

\* Reached: a tokenized line with whitespace before, between and after its
\* tokens, one of them of more than one character.
C15_Witness ==
    /\ LineTokenized
    /\ Len(tokens) >= 2
    /\ tokens[1].position > 0
    /\ \E k \in 1..Len(tokens) : Len(tokens[k].value) > 1
    /\ tokens[1].position + Len(tokens[1].value) < tokens[2].position
    /\ tokens[Len(tokens)].position + Len(tokens[Len(tokens)].value) < Len(lines[1])

(***************************************************************************)
(* C16.  When no pattern matches at a cursor the tokenizer reaches on a    *)
(* line, tokenizing raises JsonTokenizerError with the line number the     *)
(* caller gave and the column of that cursor; a string literal that is     *)
(* never closed is such a case, reported at the column of its opening      *)
(* quote.                                                                  *)
(***************************************************************************)
\* No pattern matches at the offset c of the line.
NoPatternAt(line, c) ==
    \A k \in 1..Len(patterns) : PatternMatch(patterns[k], line, c) = 0

\* The cursors the tokenizer reaches on a line: the start of the line, and
\* the end of the first match at every cursor reached before.
RECURSIVE Reached(_, _)
Reached(line, c) ==
    \/ c = 0
    \/ \E b \in 0..(c - 1) :
          /\ ~NoPatternAt(line, b)
          /\ b + PatternMatch(patterns[FirstMatchingPattern(line, b)], line, b) = c
          /\ Reached(line, b)

\* The cursors reached inside the line at which no pattern matches.
StuckCursors(line) ==
    {c \in 0..(Len(line) - 1) : NoPatternAt(line, c) /\ Reached(line, c)}

\* The number of backslashes that stand directly before the offset q, none
\* of them before the offset lo.
RECURSIVE BackslashesBefore(_, _, _)
BackslashesBefore(line, q, lo) ==
    IF q - 1 >= lo /\ CharAt(line, q - 1) = "\\"
    THEN 1 + BackslashesBefore(line, q - 1, lo)
    ELSE 0

\* A quote at the offset c opens a string literal that is never closed:
\* every quote behind it is escaped.
NeverClosed(line, c) ==
    /\ CharAt(line, c) = "\""
    /\ \A q \in (c + 1)..(Len(line) - 1) :
          CharAt(line, q) = "\"" => BackslashesBefore(line, q, c + 1) % 2 = 1

C16_TokenizerError ==
    (Len(lines) = 1 /\ (i = 1 \/ pc = "thrown")) =>
        /\ StuckCursors(lines[1]) = {} <=> i = 1
        /\ \A c \in StuckCursors(lines[1]) :
              /\ pc = "thrown"
              /\ error = JsonTokenizerError(line_nums[1], c)
        /\ \A c \in 0..(Len(lines[1]) - 1) :
              (Reached(lines[1], c) /\ NeverClosed(lines[1], c)) =>
                  /\ pc = "thrown"
                  /\ error = JsonTokenizerError(line_nums[1], c)

\* Reached: the error of a string that is never closed and holds an escaped
\* quote, behind a token, on a line the caller numbered 42.
C16_Witness ==
    /\ pc = "thrown"
    /\ Len(lines) = 1
    /\ error.name = "JsonTokenizerError"
    /\ error.line_num = 42
    /\ error.position > 0
    /\ NeverClosed(lines[1], error.position)
    /\ \E q \in (error.position + 1)..(Len(lines[1]) - 1) : lines[1][q + 1] = "\""

(***************************************************************************)
(* C17.  Whitespace is consumed and never emitted: an empty line and a     *)
(* line of whitespace give no token, and whitespace added between the      *)
(* tokens of a line changes the positions of the tokens only, not their    *)
(* kinds and values nor their order.                                       *)
(***************************************************************************)
\* The line with the character ch put in at the offset c.
InsertAt(line, c, ch) == SubSeq(line, 1, c) \o <<ch>> \o SubSeq(line, c + 1, Len(line))

\* The kinds and values of tokens, in order.
KindsAndValues(toks) ==
    [k \in 1..Len(toks) |-> <<toks[k].token_type, toks[k].value>>]

\* The offsets of a tokenized line that lie between tokens: inside no token.
BetweenTokens(line, toks) ==
    {c \in 0..Len(line) :
        \A k \in 1..Len(toks) :
            c <= toks[k].position \/ c >= toks[k].position + Len(toks[k].value)}

C17_WhitespaceSkipped ==
    LineTokenized =>
        /\ \A k \in 1..Len(tokens) : tokens[k].token_type # "Whitespace"
        /\ (\A c \in 1..Len(lines[1]) : lines[1][c] \in {" ", "\t"}) => tokens = << >>
        /\ \A c \in BetweenTokens(lines[1], tokens) :
              \A ch \in {" ", "\t"} :
                 LET spaced == tokenize_json_line(InsertAt(lines[1], c, ch), line_nums[1])
                 IN  /\ spaced.error = NoError
                     /\ KindsAndValues(spaced.tokens) = KindsAndValues(tokens)
                     /\ \A k \in 1..Len(tokens) :
                           spaced.tokens[k].position =
                               IF tokens[k].position >= c THEN tokens[k].position + 1
                               ELSE tokens[k].position

\* Reached: the line of the whitespace test, whose five tokens have leading,
\* inner and trailing whitespace around them, has been tokenized.
C17_Witness ==
    /\ LineTokenized
    /\ lines[1] = WhitespaceHandlingLine
    /\ KindsAndValues(tokens) =
          << <<"Punctuation", <<"{">> >>,
             <<"String", <<"\"", "k", "\"">> >>,
             <<"Punctuation", <<":">> >>,
             <<"String", <<"\"", "v", "\"">> >>,
             <<"Punctuation", <<"}">> >> >>

(***************************************************************************)
(* C18.  Two calls of parse_json_objects with the same lines and the same  *)
(* line numbers return deep-equal lists of roots, or throw the same error, *)
(* whatever calls of parse_json_objects and of tokenize_json_line were     *)
(* made between them.                                                      *)
(***************************************************************************)
\* The calls that have ended, the call under way included once it has.
EndedCalls ==
    IF Ended
    THEN Append(calls, [lines |-> lines, line_nums |-> line_nums,
                        returned |-> returned, error |-> error])
    ELSE calls

C18_SameInputSameOutcome ==
    \A a \in 1..Len(EndedCalls) :
       \A b \in a..Len(EndedCalls) :
          (/\ EndedCalls[a].lines = EndedCalls[b].lines
           /\ EndedCalls[a].line_nums = EndedCalls[b].line_nums) =>
              /\ EndedCalls[a].returned = EndedCalls[b].returned
              /\ EndedCalls[a].error = EndedCalls[b].error

\* Reached: a call that returned a root, then a call on other lines that
\* threw, then tokenize_json_line, then the first call again, ended.
C18_Witness ==
    /\ Ended
    /\ Len(calls) = 2
    /\ calls[1].lines = lines
    /\ calls[1].line_nums = line_nums
    /\ calls[1].returned # << >>
    /\ calls[2].lines # lines
    /\ calls[2].error # NoError
    /\ global_tokens.defined
    /\ global_tokens.value # << >>

(***************************************************************************)
(* C19.  The parser holds no state across calls: no step of a call of      *)
(* tokenize_json_line or of parse_json_objects writes a variable that      *)
(* outlives the call.                                                      *)
(***************************************************************************)
C19_AsClaimed == [][global_tokens' = global_tokens]_vars

\* What holds: parse_json_objects neither writes nor reads the property, and
\* what it returns or throws is what a first call on its arguments does.
C19_ParseHoldsNoState ==
    /\ [][pc \notin {"returned", "thrown"} => global_tokens' = global_tokens]_vars
    /\ [](Ended =>
          [records |-> returned, error |-> error] = parse_json_objects(lines, line_nums))

\* Reached: tokenize_json_line has left the tokens of a line in the property
\* tokens of the global object, and a later call of parse_json_objects on
\* other lines has returned a root.
C19_Witness ==
    /\ global_tokens.defined
    /\ global_tokens.value # << >>
    /\ calls # << >>
    /\ pc = "returned"
    /\ returned # << >>
    /\ \A k \in 1..Len(global_tokens.value) :
          \A j \in 1..Len(tokens) : global_tokens.value[k] # tokens[j]

(***************************************************************************)
(* C20.  With the default settings a document is auto-highlighted only if  *)
(* at least 2 distinct key paths occur at least 2 times each in its parsed *)
(* records; otherwise, and when the document does not parse, the list of   *)
(* keys found for it is empty and no key is highlighted.                   *)
(***************************************************************************)
\* The node a node of a record hangs under.
ParentOf(record, n) ==
    CHOOSE m \in 1..Len(record) :
        \E p \in 1..Len(record[m].children) : record[m].children[p] = n

\* The key path of a node: the keys on the way from the root down to it.
RECURSIVE KeyPathOf(_, _)
KeyPathOf(record, n) ==
    (IF n = 1 THEN << >> ELSE KeyPathOf(record, ParentOf(record, n)))
        \o (IF record[n].parent_key = NullString THEN << >>
            ELSE <<record[n].parent_key>>)

\* The nodes of the records that sit under a key.
KeyedNodes(recs) ==
    {x \in UNION {{<<r, n>> : n \in 1..Len(recs[r])} : r \in 1..Len(recs)} :
        recs[x[1]][x[2]].parent_key # NullString}

\* The key paths that occur at least twice.
RepeatedKeyPaths(recs) ==
    {KeyPathOf(recs[x[1]], x[2]) : x \in
        {x \in KeyedNodes(recs) :
            \E y \in KeyedNodes(recs) :
                /\ y # x
                /\ KeyPathOf(recs[y[1]], y[2]) = KeyPathOf(recs[x[1]], x[2])}}

\* The document parses and at least two key paths occur twice in its records.
EnoughRepeatedKeys(parsed) ==
    /\ parsed.error = NoError
    /\ Cardinality(RepeatedKeyPaths(parsed.records)) >= 2

\* What get_keys_to_highlight returns to the provider of the tokens.
KeysReturned ==
    IF fileName = << >> \/ ~per_doc_reversed_keys_to_highlight.has THEN << >>
    ELSE [k \in 1..Len(per_doc_reversed_keys_to_highlight.keys) |->
             get_path_signature(per_doc_reversed_keys_to_highlight.keys[k])]

\* The claim: whenever keys are returned for a document, its records hold
\* two key paths that occur twice.
C20_AsClaimed ==
    (pc = "keys" /\ KeysReturned # << >>) =>
        \E parsed \in {parse_json_objects(WholeDocument(doc).lines,
                                          WholeDocument(doc).line_nums)} :
            EnoughRepeatedKeys(parsed)

\* What holds: the list stored for a file name is non-empty exactly when the
\* document, as it was when the list was made (returned and error are what
\* parse_json_objects made of it), parsed with two key paths that occur
\* twice; and it holds at most five paths, each of them repeated.
C20_AtDetection ==
    per_doc_reversed_keys_to_highlight.has =>
        /\ per_doc_reversed_keys_to_highlight.keys # << >>
              <=> EnoughRepeatedKeys([records |-> returned, error |-> error])
        /\ Len(per_doc_reversed_keys_to_highlight.keys) <= 5
        /\ \A k \in 1..Len(per_doc_reversed_keys_to_highlight.keys) :
              Reversed(per_doc_reversed_keys_to_highlight.keys[k])
                  \in RepeatedKeyPaths(returned)

\* Reached: keys are returned for a document that parses to records in which
\* no key path occurs twice; the list was made before the document was edited.
C20_Witness ==
    /\ pc = "keys"
    /\ KeysReturned # << >>
    /\ lines # doc
    /\ \E parsed \in {parse_json_objects(WholeDocument(doc).lines,
                                          WholeDocument(doc).line_nums)} :
          /\ parsed.error = NoError
          /\ parsed.records # << >>
          /\ RepeatedKeyPaths(parsed.records) = {}

(***************************************************************************)
(* C21.  After any sequence of the commands Enable, Disable and            *)
(* ToggleKeyHighlight at most one registration of the token provider is    *)
(* live, rainbow_token_event is non-null exactly when one is live, and     *)
(* right after Disable none is live.                                       *)
(***************************************************************************)
C21_OneRegistration ==
    /\ Cardinality(registrations) <= 1
    /\ rainbow_token_event # NullInt <=> registrations # {}
    /\ rainbow_token_event # NullInt => registrations = {rainbow_token_event}
    /\ pc = "disabled" => registrations = {}

\* Reached: the last registration of the session is live after a key was toggled on a
\* disabled extension.
C21_Witness ==
    /\ pc = "toggled"
    /\ registrations = {MaxRegistrations}
    /\ rainbow_token_event = MaxRegistrations
    /\ per_doc_reversed_keys_to_highlight.has
    /\ \E k \in 1..Len(per_doc_reversed_keys_to_highlight.keys) :
          per_doc_reversed_keys_to_highlight.keys[k] = NullPath

(***************************************************************************)
(* C22.  consume_json_record started at an opening bracket that has a      *)
(* matching closer returns normally if and only if the tokens from the     *)
(* bracket to that closer are a container of the JSON grammar; otherwise   *)
(* it raises JsonSyntaxError at the first token the grammar forbids.       *)
(***************************************************************************)
\* The tokens of the window are at hand and the grouping pass starts.
TokensReady == pc = "group" /\ token_idx = 0

\* The openers of the tokens that a later closer matches, by counting.
ClosedOpeners(toks) == {s[1] : s \in Spans(toks)}

\* What the grammar and consume_json_record say of the container opened at k.
AsTheGrammar(toks, k, verdict, consumed) ==
    IF verdict.ok
    THEN /\ consumed.error = NoError
         /\ consumed.token_idx = verdict.at
         /\ verdict.at = CloserOf(toks, k) + 1
    ELSE /\ verdict.at < Len(toks)
         /\ consumed.error = JsonSyntaxError(TokenAt(toks, verdict.at).line_num,
                                             TokenAt(toks, verdict.at).position)

C22_GrammarContainers ==
    TokensReady =>
        \A k \in ClosedOpeners(tokens) :
            \E verdict \in {GrammarValue(tokens, k)} :
                \E consumed \in {consume_json_record(tokens, k)} :
                    AsTheGrammar(tokens, k, verdict, consumed)

\* Reached: tokens with a nested container the grammar accepts and a
\* container it forbids at a token behind its first member.
C22_Witness ==
    /\ TokensReady
    /\ \E k \in ClosedOpeners(tokens) :
          /\ k > 0
          /\ GrammarValue(tokens, k).ok
          /\ GrammarValue(tokens, k).at > k + 2
    /\ \E k \in ClosedOpeners(tokens) :
          /\ ~GrammarValue(tokens, k).ok
          /\ GrammarValue(tokens, k).at > k + 3

(***************************************************************************)
(* C23.  The grouping pass returns no group nested inside another returned *)
(* group: the complete children a frame collected are dropped when the     *)
(* frame itself closes, and are emitted only for the frames still open at  *)
(* the end of the scan, frame by frame in push order, outermost first.     *)
(***************************************************************************)
\* The grouping pass has returned its groups.
GroupsReturned == pc = "records" /\ group_idx = 0

\* The span of a group.
SpanOf(group) == <<group.first_token_idx, group.last_token_idx>>

\* The groups collected so far: those of the result list, then those the
\* open frames hold, from the bottom of the stack.
Collected == FlushStack(result, stack)

\* The open frame a flushed group was collected by: the last bracket before
\* it that is never closed; NullInt for a group closed on an empty stack.
OwnerOf(toks, group) ==
    IF \E u \in UnclosedOpeners(toks) : u < group.first_token_idx
    THEN CHOOSE u \in UnclosedOpeners(toks) :
            /\ u < group.first_token_idx
            /\ \A v \in UnclosedOpeners(toks) : v < group.first_token_idx => v <= u
    ELSE NullInt

C23_NoNestedGroups ==
    /\ pc = "group" =>
          /\ \A a \in 1..Len(Collected) : \A b \in 1..Len(Collected) :
                ~Encloses(SpanOf(Collected[a]), SpanOf(Collected[b]))
          /\ \A f \in 1..Len(stack) :
                \A c \in 1..Len(stack[f].complete_children_groups) :
                   /\ stack[f].first_token_idx
                         < stack[f].complete_children_groups[c].first_token_idx
                   /\ f < Len(stack) =>
                         stack[f].complete_children_groups[c].last_token_idx
                             < stack[f + 1].first_token_idx
    /\ GroupsReturned =>
          /\ \A a \in 1..Len(token_object_groups) : \A b \in 1..Len(token_object_groups) :
                ~Encloses(SpanOf(token_object_groups[a]), SpanOf(token_object_groups[b]))
          /\ \A a \in 1..Len(token_object_groups) :
                /\ SpanOf(token_object_groups[a]) \in Outermost(Spans(tokens))
                /\ \A b \in a..Len(token_object_groups) :
                      OwnerOf(tokens, token_object_groups[a])
                          <= OwnerOf(tokens, token_object_groups[b])

\* Reached: two frames are open at the end of the scan, each with a complete
\* child of its own, and a container with a child was closed before them.
C23_Witness ==
    /\ GroupsReturned
    /\ \E a \in 1..Len(token_object_groups) : \E b \in 1..Len(token_object_groups) :
          /\ OwnerOf(tokens, token_object_groups[a]) # NullInt
          /\ OwnerOf(tokens, token_object_groups[a])
                < OwnerOf(tokens, token_object_groups[b])
    /\ \E s \in Spans(tokens) : s \notin Outermost(Spans(tokens))

(***************************************************************************)
(* C24.  The groups the grouping pass returns, and hence the roots         *)
(* parse_json_objects returns, are in source order and pairwise disjoint:  *)
(* for consecutive groups g and h, g.first_token_idx <= g.last_token_idx   *)
(* < h.first_token_idx, the groups flushed at the end of the scan          *)
(* included.                                                               *)
(***************************************************************************)
C24_SourceOrder ==
    /\ pc \in {"records", "consume", "consumed", "returned"} =>
          /\ \A g \in 1..Len(token_object_groups) :
                token_object_groups[g].first_token_idx
                    <= token_object_groups[g].last_token_idx
          /\ \A g \in 1..(Len(token_object_groups) - 1) :
                token_object_groups[g].last_token_idx
                    < token_object_groups[g + 1].first_token_idx
    /\ pc = "returned" =>
          /\ Len(returned) = Len(token_object_groups)
          /\ \A g \in 1..Len(returned) :
                /\ returned[g][1].start_position =
                      PositionOf(tokens, token_object_groups[g].first_token_idx)
                /\ returned[g][1].end_position =
                      PositionOf(tokens, token_object_groups[g].last_token_idx)

\* Reached: roots returned for groups closed on an empty stack, then for a
\* group flushed from an open frame.
C24_Witness ==
    /\ pc = "returned"
    /\ Len(returned) >= 3
    /\ OwnerOf(tokens, token_object_groups[1]) = NullInt
    /\ OwnerOf(tokens, token_object_groups[Len(returned)]) # NullInt

(***************************************************************************)
(* C25.  In a window of a well-formed document every returned root is a    *)
(* container of the document, and the relative_depth of the roots differs  *)
(* from their nesting depth in the whole document by one constant: for any *)
(* two returned roots the difference of the relative depths is the         *)
(* difference of the numbers of document containers that enclose them.     *)
(***************************************************************************)
\* The containers of the document a returned root is the parse of.
DocSpansOf(root) ==
    {s \in Spans(DocTokens.tokens) :
        /\ root.start_position = PositionOf(DocTokens.tokens, s[1])
        /\ root.end_position = PositionOf(DocTokens.tokens, s[2])}

\* The nesting depth of a container in the whole document.
TrueDepth(s) == Cardinality({t \in Spans(DocTokens.tokens) : Encloses(t, s)})

C25_DepthDifferences ==
    (pc = "returned" /\ WellFormedDoc) =>
        /\ \A a \in 1..Len(returned) : Cardinality(DocSpansOf(returned[a][1])) = 1
        /\ \A a, b \in 1..Len(returned) :
              \A sa \in DocSpansOf(returned[a][1]) :
                 \A sb \in DocSpansOf(returned[b][1]) :
                    returned[a][1].relative_depth - returned[b][1].relative_depth
                        = TrueDepth(sa) - TrueDepth(sb)

\* Reached: a window that is not the whole document, with a root closed
\* before a closer that closes nothing in the window, a root kept by a frame
\* the window never closes, and two roots of different depths.
C25_Witness ==
    /\ pc = "returned"
    /\ WellFormedDoc
    /\ Len(lines) < Len(doc)
    /\ UnmatchedClosers(tokens) # {}
    /\ UnclosedOpeners(tokens) # {}
    /\ \E a, b \in 1..Len(returned) :
          returned[a][1].relative_depth # returned[b][1].relative_depth

(***************************************************************************)
(* C26.  In every returned tree a container node starts at the position of *)
(* its opening bracket and ends at the position of the closing bracket     *)
(* itself (not the column after it), and a scalar node starts at the       *)
(* position of its token and ends on the same line, at the start column    *)
(* plus the length of the literal text.                                    *)
(***************************************************************************)
\* The tokens a node of a returned tree starts at.
TokensAtStart(node) ==
    {k \in Indices(tokens) : PositionOf(tokens, k) = node.start_position}

\* The opening bracket a container node is written with.
OpenerText(node_type) == IF node_type = OBJECT_NODE_TYPE THEN <<"{">> ELSE <<"[">>

SpansItsToken(node) ==
    /\ Cardinality(TokensAtStart(node)) = 1
    /\ \A k \in TokensAtStart(node) :
          IF node.node_type = SCALAR_NODE_TYPE
          THEN /\ TokenAt(tokens, k).token_type \in {"String", "Number", "Constant"}
               /\ node.value = TokenAt(tokens, k).value
               /\ node.end_position.line = node.start_position.line
               /\ node.end_position.character
                     = node.start_position.character + Len(TokenAt(tokens, k).value)
          ELSE /\ TokenAt(tokens, k).value = OpenerText(node.node_type)
               /\ CloserOf(tokens, k) # NullInt
               /\ node.end_position = PositionOf(tokens, CloserOf(tokens, k))

C26_NodePositions ==
    pc = "returned" =>
        \A r \in 1..Len(returned) :
            \A n \in 1..Len(returned[r]) : SpansItsToken(returned[r][n])

\* Reached: a returned root that closes on a later line than it opens and
\* holds a scalar more than one character long.
C26_Witness ==
    /\ pc = "returned"
    /\ \E r \in 1..Len(returned) :
          /\ returned[r][1].end_position.line > returned[r][1].start_position.line
          /\ \E n \in 2..Len(returned[r]) :
                /\ returned[r][n].node_type = SCALAR_NODE_TYPE
                /\ Len(returned[r][n].value) > 1

(***************************************************************************)
(* C27.  In every returned tree the root has no parent_key and no          *)
(* parent_array_index; a child of an OBJECT node has a parent_key and no   *)
(* parent_array_index; a child of an ARRAY node has a parent_array_index   *)
(* and no parent_key; a SCALAR node has a value and no children; an OBJECT *)
(* or ARRAY node has no value.                                             *)
(***************************************************************************)
AttributedByParent(record, n) ==
    IF n = 1
    THEN /\ record[n].parent_key = NullString
         /\ record[n].parent_array_index = NullInt
    ELSE IF record[ParentOf(record, n)].node_type = OBJECT_NODE_TYPE
    THEN /\ record[n].parent_key # NullString
         /\ record[n].parent_array_index = NullInt
    ELSE /\ record[ParentOf(record, n)].node_type = ARRAY_NODE_TYPE
         /\ record[n].parent_array_index # NullInt
         /\ record[n].parent_key = NullString

ValueByType(node) ==
    IF node.node_type = SCALAR_NODE_TYPE
    THEN node.value # NullString /\ node.children = << >>
    ELSE /\ node.node_type \in {OBJECT_NODE_TYPE, ARRAY_NODE_TYPE}
         /\ node.value = NullString

\* Every node but the root is the child of exactly one node.
OneParent(record, n) ==
    Cardinality({m \in 1..Len(record) :
        \E p \in 1..Len(record[m].children) : record[m].children[p] = n})
      = (IF n = 1 THEN 0 ELSE 1)

C27_NodeAttribution ==
    pc = "returned" =>
        \A r \in 1..Len(returned) :
            \A n \in 1..Len(returned[r]) :
                /\ OneParent(returned[r], n)
                /\ AttributedByParent(returned[r], n)
                /\ ValueByType(returned[r][n])

\* Reached: a returned tree in which an object holds an array and a scalar,
\* and the array holds a value of its own.
C27_Witness ==
    /\ pc = "returned"
    /\ \E r \in 1..Len(returned) :
          \E a, s, e \in 2..Len(returned[r]) :
             /\ returned[r][a].node_type = ARRAY_NODE_TYPE
             /\ returned[r][a].parent_key # NullString
             /\ returned[r][s].node_type = SCALAR_NODE_TYPE
             /\ returned[r][s].parent_key # NullString
             /\ ParentOf(returned[r], e) = a

(***************************************************************************)
(* C28.  In every returned list relative_depth is a non-negative integer   *)
(* on each root and null on every node below a root, and end_position is   *)
(* set on every node: a position with a line of the window and a column    *)
(* that is not negative.                                                   *)
(***************************************************************************)
C28_DepthOnRootsOnly ==
    pc = "returned" =>
        \A r \in 1..Len(returned) :
            /\ returned[r] # << >>
            /\ returned[r][1].relative_depth \in Nat
            /\ \A n \in 2..Len(returned[r]) :
                  returned[r][n].relative_depth = NullInt
            /\ \A n \in 1..Len(returned[r]) :
                  /\ returned[r][n].end_position # NullPosition
                  /\ returned[r][n].end_position.line
                        \in {line_nums[l] : l \in 1..Len(line_nums)}
                  /\ returned[r][n].end_position.character \in Nat

\* Reached: a returned list with a root of depth 0 and a root of depth 2,
\* one of them with containers and scalars below it.
C28_Witness ==
    /\ pc = "returned"
    /\ \E r \in 1..Len(returned) : returned[r][1].relative_depth = 0
    /\ \E r \in 1..Len(returned) : returned[r][1].relative_depth = 2
    /\ \E r \in 1..Len(returned) :
          \E a, s \in 2..Len(returned[r]) :
             /\ returned[r][a].node_type # SCALAR_NODE_TYPE
             /\ returned[r][s].node_type = SCALAR_NODE_TYPE

(***************************************************************************)
(* C29.  In every returned tree a child of an OBJECT node stands right     *)
(* after a colon, and its parent_key is the text of the string token right *)
(* before that colon and its parent_key_position that token's line and     *)
(* column (never the key of an earlier member or of another frame).  The   *)
(* children of an object are in declaration order and there is one for     *)
(* every colon of the object, members with a repeated key included.        *)
(***************************************************************************)
\* The token a node starts at.
TokenOf(node) == CHOOSE k \in Indices(tokens) : PositionOf(tokens, k) = node.start_position

KeyedByItsOwnKey(node) ==
    LET k == TokenOf(node)
    IN  /\ k >= 2
        /\ colon(TokenAt(tokens, k - 1))
        /\ TokenAt(tokens, k - 2).token_type = "String"
        /\ node.parent_key = TokenAt(tokens, k - 2).value
        /\ node.parent_key_position = PositionOf(tokens, k - 2)

\* The colons of an object itself: those between its braces that lie in no
\* container inside it.
OwnColons(o) ==
    {j \in (o + 1)..(CloserOf(tokens, o) - 1) :
        /\ colon(TokenAt(tokens, j))
        /\ \A t \in Spans(tokens) : ~(o < t[1] /\ t[1] < j /\ j < t[2])}

C29_KeysOfMembers ==
    pc = "returned" =>
        \A r \in 1..Len(returned) :
            \A m \in 1..Len(returned[r]) :
                returned[r][m].node_type = OBJECT_NODE_TYPE =>
                    LET members == returned[r][m].children
                    IN  /\ \A p \in 1..Len(members) :
                              KeyedByItsOwnKey(returned[r][members[p]])
                        /\ \A p \in 1..(Len(members) - 1) :
                              TokenOf(returned[r][members[p]])
                                  < TokenOf(returned[r][members[p + 1]])
                        /\ {TokenOf(returned[r][members[p]]) - 1 : p \in 1..Len(members)}
                              = OwnColons(TokenOf(returned[r][m]))

\* Reached: an object returned with two members under the same key, one of
\* them an object that repeats a key itself, and a member under another key.
C29_Witness ==
    /\ pc = "returned"
    /\ \E r \in 1..Len(returned) :
          \E a, b, c, d, e \in 2..Len(returned[r]) :
             /\ a < b /\ c < d
             /\ ParentOf(returned[r], a) = 1
             /\ ParentOf(returned[r], b) = 1
             /\ ParentOf(returned[r], e) = 1
             /\ returned[r][a].parent_key = returned[r][b].parent_key
             /\ returned[r][e].parent_key # returned[r][a].parent_key
             /\ ParentOf(returned[r], c) = b
             /\ ParentOf(returned[r], d) = b
             /\ returned[r][c].parent_key = returned[r][d].parent_key

(***************************************************************************)
(* C30.  consume_json_record(tokens, i), for i inside the token list, ends *)
(* in one of three ways.  It throws JsonSyntaxError: at tokens[i] when     *)
(* that token opens no container, or at the first later token the grammar  *)
(* forbids.  It throws JsonIncompleteError when the tokens run out with    *)
(* the container still open and no token forbidden before.  Or it returns  *)
(* the root and the index just past the closer that matches tokens[i], and *)
(* then the tokens after that closer are not examined: without them the    *)
(* call returns the same.                                                  *)
(***************************************************************************)
\* The way a call of consume_json_record ended.
OutcomeOf(consumed) ==
    IF consumed.error = NoError THEN "returned" ELSE consumed.error.name

\* The error a syntax error at token k is.
SyntaxErrorAt(toks, k) ==
    JsonSyntaxError(TokenAt(toks, k).line_num, TokenAt(toks, k).position)

\* The outcome the claim gives for a call at k, from the token at k and from
\* what the grammar says of the tokens from k on.
AsClaimedOutcome(toks, k, verdict, consumed) ==
    IF ~IsOpenerAt(toks, k)
    THEN consumed.error = SyntaxErrorAt(toks, k)
    ELSE IF verdict.ok
    THEN /\ consumed.error = NoError
         /\ consumed.nodes # << >>
         /\ consumed.nodes[1].start_position = PositionOf(toks, k)
         /\ CloserOf(toks, k) # NullInt
         /\ consumed.token_idx = CloserOf(toks, k) + 1
         /\ consumed.nodes[1].end_position = PositionOf(toks, CloserOf(toks, k))
         /\ consumed = consume_json_record(SubSeq(toks, 1, CloserOf(toks, k) + 1), k)
    ELSE IF verdict.at < Len(toks)
    THEN consumed.error = SyntaxErrorAt(toks, verdict.at)
    ELSE consumed.error = JsonIncompleteError

C30_ThreeOutcomes ==
    TokensReady =>
        \A k \in Indices(tokens) :
            \E verdict \in {GrammarValue(tokens, k)} :
                \E consumed \in {consume_json_record(tokens, k)} :
                    /\ OutcomeOf(consumed)
                          \in {"returned", "JsonSyntaxError", "JsonIncompleteError"}
                    /\ AsClaimedOutcome(tokens, k, verdict, consumed)

\* Reached: tokens with a call that returns before the last token, a call
\* that throws JsonSyntaxError behind its first token, and a call that
\* throws JsonIncompleteError.
C30_Witness ==
    /\ TokensReady
    /\ \E k \in Indices(tokens) :
          /\ OutcomeOf(consume_json_record(tokens, k)) = "returned"
          /\ consume_json_record(tokens, k).token_idx < Len(tokens)
    /\ \E k \in Indices(tokens) :
          /\ IsOpenerAt(tokens, k)
          /\ OutcomeOf(consume_json_record(tokens, k)) = "JsonSyntaxError"
    /\ \E k \in Indices(tokens) :
          OutcomeOf(consume_json_record(tokens, k)) = "JsonIncompleteError"

(***************************************************************************)
(* C31.  parse_json_objects runs its phases in order over the whole        *)
(* window.  When a line of the window does not tokenize, the call throws   *)
(* the lexical error of the first such line, whatever the lines before it  *)
(* hold.  Otherwise, when a closer of the window closes an opener of the   *)
(* other kind, the call throws at the first such closer, whatever the      *)
(* complete records before it hold.  Otherwise, when the grammar forbids a *)
(* token of a complete record, the call throws at the first forbidden      *)
(* token of the earliest such record.  Otherwise it returns.               *)
(***************************************************************************)
\* The lines of the window that do not tokenize (indices from 1).
LexicallyBadLines ==
    {l \in 1..Len(lines) : tokenize_json_line(lines[l], line_nums[l]).error # NoError}

\* The tokens of the lines of the window before line l.
TokensBefore(l) ==
    TokenizeLines(SubSeq(lines, 1, l - 1), SubSeq(line_nums, 1, l - 1), 0, << >>).tokens

\* The complete records the grammar forbids a token of, by their openers.
BadRecords(toks) ==
    {s[1] : s \in {t \in Outermost(Spans(toks)) : ~GrammarValue(toks, t[1]).ok}}

\* The least number of a set of numbers that is not empty.
Least(S) == CHOOSE x \in S : \A y \in S : x <= y

C31_PhasesInOrder ==
    Ended =>
        IF LexicallyBadLines # {}
        THEN /\ pc = "thrown"
             /\ error = tokenize_json_line(lines[Least(LexicallyBadLines)],
                                           line_nums[Least(LexicallyBadLines)]).error
        ELSE IF FirstMismatchedCloser(tokens) # NullInt
        THEN /\ pc = "thrown"
             /\ error = SyntaxErrorAt(tokens, FirstMismatchedCloser(tokens))
        ELSE IF BadRecords(tokens) # {}
        THEN /\ pc = "thrown"
             /\ error = SyntaxErrorAt(tokens,
                            GrammarValue(tokens, Least(BadRecords(tokens))).at)
        ELSE pc = "returned"

\* Reached: a call that threw the lexical error of a line that follows a
\* mismatched closer and two records the grammar forbids.
C31_Witness ==
    /\ pc = "thrown"
    /\ error.name = "JsonTokenizerError"
    /\ LexicallyBadLines # {}
    /\ FirstMismatchedCloser(TokensBefore(Least(LexicallyBadLines))) # NullInt
    /\ Cardinality(BadRecords(TokensBefore(Least(LexicallyBadLines)))) >= 2

(***************************************************************************)
(* C32.  parse_json_objects terminates on every finite input.  At every    *)
(* cursor of a line where a pattern matches, the match is not empty and    *)
(* ends inside the line, so the cursor of the tokenizer strictly increases *)
(* and stays within the line.  The loop over the lines, the scan of the    *)
(* grouping pass and the loop of consume_json_record each advance their    *)
(* index by exactly one on every iteration that does not throw, and the    *)
(* loop over the groups never steps back.  Hence every call ends: it       *)
(* returns or throws.                                                      *)
(***************************************************************************)
\* Calls on the windows of the documents of the tests that run to their
\* end: no iteration is put off for ever.
InitTerminates ==
    /\ doc \in TestDocs \cup {RepeatedKeys, ErrorOfEveryPhase}
    /\ \E begin_line \in 0..Len(doc) :
         \E end_line \in (begin_line + 1)..Len(doc) :
            /\ lines = parse_document_range(doc, begin_line, end_line).lines
            /\ line_nums = parse_document_range(doc, begin_line, end_line).line_nums
    /\ FreshCall

SpecTerminates == InitTerminates /\ [][Next]_vars /\ WF_vars(Next)

\* The cursor after the iteration of the tokenizer loop at cursor, when the
\* k-th pattern is the first to match.
CursorAfter(line, cursor, k) == cursor + PatternMatch(patterns[k], line, cursor)

CursorAdvances ==
    (pc = "tokenize" /\ i < Len(lines)) =>
    \A l \in {i + 1} :
        \A cursor \in 0..(Len(lines[l]) - 1) :
            /\ \A k \in 1..Len(patterns) :
                  PatternMatch(patterns[k], lines[l], cursor)
                      \in 0..(Len(lines[l]) - cursor)
            /\ FirstMatchingPattern(lines[l], cursor) # 0 =>
                  /\ CursorAfter(lines[l], cursor, FirstMatchingPattern(lines[l], cursor))
                        > cursor
                  /\ CursorAfter(lines[l], cursor, FirstMatchingPattern(lines[l], cursor))
                        <= Len(lines[l])

\* Every iteration of a loop that does not leave the loop moves its index
\* one further.
IndexAdvances ==
    /\ (pc = "tokenize" /\ pc' = "tokenize") => i' = i + 1 /\ i' <= Len(lines)
    /\ (pc = "group" /\ pc' = "group") =>
          token_idx' = token_idx + 1 /\ token_idx' <= Len(tokens)
    /\ (pc = "consume" /\ pc' = "consume") =>
          token_idx' = token_idx + 1 /\ token_idx' <= Len(tokens)
    /\ (pc \in {"records", "consume", "consumed"}
          /\ pc' \in {"records", "consume", "consumed"}) =>
          /\ group_idx' \in {group_idx, group_idx + 1}
          /\ (pc = "consumed") = (group_idx' = group_idx + 1)
          /\ group_idx' <= Len(token_object_groups)

C32_Terminates ==
    /\ []CursorAdvances
    /\ [][IndexAdvances]_vars
    /\ <>Ended

\* Reached: a call that went through every loop more than once and returned:
\* several lines, several groups, a record of several tokens.
C32_Witness ==
    /\ pc = "returned"
    /\ Len(lines) >= 3
    /\ Len(returned) >= 2
    /\ \E r \in 1..Len(returned) : Len(returned[r]) >= 3

(***************************************************************************)
(* C37.  Every toggle_key_highlight that changes the list of keys ends by  *)
(* disposing of the registration held, if any, and registering a new       *)
(* provider: after Disable followed by a toggle that changed the list a    *)
(* provider is live again, without any Enable.                             *)
(***************************************************************************)
\* The last command run was ToggleKeyHighlight and it showed no error.
ToggledLast ==
    /\ handler_log # << >>
    /\ handler_log[Len(handler_log)].handler = "rainbow-json.ToggleKeyHighlight"
    /\ handler_log[Len(handler_log)].shown = ""

\* A step that changes the list of keys disposes of the registration held
\* and leaves exactly the one it makes.
ListChangeRefreshes ==
    per_doc_reversed_keys_to_highlight' # per_doc_reversed_keys_to_highlight =>
        /\ ToggledLast'
        /\ registrations_made' = registrations_made + 1
        /\ registrations' = {registrations_made'}
        /\ rainbow_token_event' = registrations_made'
        /\ rainbow_token_event \notin registrations'

C37_ToggleRefreshes ==
    /\ [][ListChangeRefreshes]_vars
    /\ [](ToggledLast => registrations # {} /\ rainbow_token_event # NullInt)

\* Reached: Disable left no registration, and the toggle that followed it
\* added a key and left a live provider.
C37_Witness ==
    /\ Len(handler_log) = 2
    /\ handler_log[1].handler = "rainbow-json.Disable"
    /\ ToggledLast
    /\ per_doc_reversed_keys_to_highlight.has
    /\ \E k \in 1..Len(per_doc_reversed_keys_to_highlight.keys) :
          per_doc_reversed_keys_to_highlight.keys[k] = Reversed(handler_log[2].key_path)
    /\ registrations = {rainbow_token_event}

(***************************************************************************)
(* C33.  provideDocumentRangeSemanticTokens never propagates an error of   *)
(* the parser: when parse_json_objects throws on the extended range it     *)
(* returns an empty set of tokens, when no key that is not null is         *)
(* selected it returns an empty set of tokens without parsing the range,   *)
(* and for a document whose language is neither json nor jsonl it returns  *)
(* null.                                                                   *)
(***************************************************************************)
\* The run of a handler the editor saw last.
LastRun == handler_log[Len(handler_log)]

\* The step is a call of the provider.
ProvidedNow ==
    /\ handler_log' # handler_log
    /\ LastRun'.handler = "provideDocumentRangeSemanticTokens"

\* The map holds a key that is not null for the document.
KeySelected ==
    /\ fileName # << >>
    /\ \E k \in 1..Len(per_doc_reversed_keys_to_highlight.keys) :
          per_doc_reversed_keys_to_highlight.keys[k] # NullPath

\* The parses of the range the run made.
RangeParses(run) ==
    SelectSeq(run.parsed, LAMBDA made : made.by = "provideDocumentRangeSemanticTokens")

\* Some line of the document is not a record: the tokenizer or the parser
\* throws on it.
HasBrokenLine == \E l \in 1..Len(doc) : doc[l] # RecordLine

ProvideNeverThrows ==
    ProvidedNow =>
        /\ LastRun'.returns \in {"null", "tokens"}
        /\ IF LastRun'.languageId \notin {"json", "jsonl"}
           THEN /\ LastRun'.returns = "null"
                /\ LastRun'.parsed = << >>
                /\ UNCHANGED per_doc_reversed_keys_to_highlight
           ELSE /\ LastRun'.returns = "tokens"
                /\ IF ~KeySelected'
                   THEN /\ LastRun'.tokens = << >>
                        /\ RangeParses(LastRun') = << >>
                   ELSE /\ Len(RangeParses(LastRun')) = 1
                        /\ RangeParses(LastRun')[1].line_nums
                              = [k \in 1..Len(doc) |-> k - 1]
                        /\ RangeParses(LastRun')[1].threw = HasBrokenLine
                        /\ HasBrokenLine <=> LastRun'.tokens = << >>

C33_ProviderNeverThrows == [][ProvideNeverThrows]_vars

\* Reached: keys are selected for a document that was edited so that a line
\* of it is broken, the provider parsed its range, the parser threw, and
\* the provider returned no token.
C33_Witness ==
    /\ handler_log # << >>
    /\ LastRun.handler = "provideDocumentRangeSemanticTokens"
    /\ KeySelected
    /\ HasBrokenLine
    /\ LastRun.returns = "tokens"
    /\ LastRun.tokens = << >>
    /\ RangeParses(LastRun) # << >>
    /\ RangeParses(LastRun)[1].threw

(***************************************************************************)
(* C38.  The list of keys detected for a document is computed at most      *)
(* once per file name: once the map has an entry for the file, no later    *)
(* call of get_keys_to_highlight parses the document again or replaces the *)
(* entry, whatever the document has become; only toggle_key_highlight      *)
(* modifies it.                                                            *)
(***************************************************************************)
\* The parses of the whole document a run made to count its keys.
StatsParses(run) ==
    SelectSeq(run.parsed, LAMBDA made : made.by = "calculate_key_frequency_stats")

EntryComputedOnce ==
    /\ ProvidedNow /\ per_doc_reversed_keys_to_highlight.has =>
          /\ UNCHANGED per_doc_reversed_keys_to_highlight
          /\ StatsParses(LastRun') = << >>
    /\ ProvidedNow /\ ~per_doc_reversed_keys_to_highlight.has =>
          /\ Len(StatsParses(LastRun')) <= 1
          /\ per_doc_reversed_keys_to_highlight'.has <=> Len(StatsParses(LastRun')) = 1
    /\ per_doc_reversed_keys_to_highlight.has
          /\ per_doc_reversed_keys_to_highlight' # per_doc_reversed_keys_to_highlight =>
             /\ LastRun'.handler = "rainbow-json.ToggleKeyHighlight"
             /\ LastRun'.shown = ""
             /\ rainbow_token_event' # rainbow_token_event

C38_EntryComputedOnce == [][EntryComputedOnce]_vars

\* Reached: a first call of the provider detected the keys of the document,
\* the document was edited so that its keys are no longer those of the
\* entry, and a second call answered from the map without counting again.
C38_Witness ==
    /\ Len(handler_log) = 2
    /\ handler_log[1].handler = "provideDocumentRangeSemanticTokens"
    /\ StatsParses(handler_log[1]) # << >>
    /\ handler_log[2].handler = "provideDocumentRangeSemanticTokens"
    /\ handler_log[2].returns = "tokens"
    /\ StatsParses(handler_log[2]) = << >>
    /\ per_doc_reversed_keys_to_highlight.has
    /\ per_doc_reversed_keys_to_highlight.keys # << >>
    /\ per_doc_reversed_keys_to_highlight.keys
          # keys_to_highlight(calculate_key_frequency_stats(WholeDocument(doc).lines,
                                                            WholeDocument(doc).line_nums))

(***************************************************************************)
(* C34.  Toggling off a key path that is highlighted replaces its entry in *)
(* the list of the document by null in place: the length of the list and   *)
(* the index, hence the colour, of every other entry are unchanged.        *)
(***************************************************************************)
\* The list of keys of the document.
KeysList == per_doc_reversed_keys_to_highlight.keys

\* The step is a toggle that went through to the refresh of the tokens, and
\* the key path it toggled.
ToggledNow == registrations_made' = registrations_made + 1
ToggledPath == Reversed(LastRun'.key_path)

\* The places of the list that hold the path.
PlacesOf(keys_list, reversed_path) ==
    {k \in 1..Len(keys_list) : keys_list[k] = reversed_path}

\* The colour of the entry at a place of the list.
ColourAt(k) == rainbow_token_types[((k - 1) % Len(rainbow_token_types)) + 1]

ToggleOffInPlace ==
    ToggledNow /\ PlacesOf(KeysList, ToggledPath) # {} =>
        /\ Len(KeysList') = Len(KeysList)
        /\ \E k \in PlacesOf(KeysList, ToggledPath) :
              /\ KeysList'[k] = NullPath
              /\ \A j \in (1..Len(KeysList)) \ {k} : KeysList'[j] = KeysList[j]
        /\ \A j \in 1..Len(KeysList') :
              KeysList'[j] # NullPath =>
                 \E k \in PlacesOf(KeysList, KeysList'[j]) : ColourAt(k) = ColourAt(j)

C34_ToggleOffInPlace == [][ToggleOffInPlace]_vars

\* Reached: a key path in the middle of the list was toggled off, and the
\* entries before and after it are where they were.
C34_Witness ==
    /\ LastRun.handler = "rainbow-json.ToggleKeyHighlight"
    /\ LastRun.shown = ""
    /\ Len(KeysList) >= 5
    /\ PlacesOf(KeysList, Reversed(LastRun.key_path)) = {}
    /\ \E k \in 2..(Len(KeysList) - 1) :
          /\ KeysList[k] = NullPath
          /\ \A j \in (1..Len(KeysList)) \ {k} : KeysList[j] # NullPath

(***************************************************************************)
(* C36.  Toggling on a key path that is not in the list stores it at the   *)
(* null slot of lowest index when there is one and otherwise appends it at *)
(* the end; no existing entry that is not null is moved or overwritten.    *)
(***************************************************************************)
\* The places of the list that hold null.
NullSlots(keys_list) == PlacesOf(keys_list, NullPath)

ToggleOnAtFirstNull ==
    ToggledNow /\ PlacesOf(KeysList, ToggledPath) = {} =>
        /\ IF NullSlots(KeysList) # {}
           THEN /\ Len(KeysList') = Len(KeysList)
                /\ \E k \in NullSlots(KeysList) :
                      /\ \A j \in NullSlots(KeysList) : k <= j
                      /\ KeysList'[k] = ToggledPath
                      /\ \A j \in (1..Len(KeysList)) \ {k} : KeysList'[j] = KeysList[j]
           ELSE /\ Len(KeysList') = Len(KeysList) + 1
                /\ KeysList'[Len(KeysList')] = ToggledPath
                /\ \A j \in 1..Len(KeysList) : KeysList'[j] = KeysList[j]
        /\ \A j \in 1..Len(KeysList) :
              KeysList[j] # NullPath => KeysList'[j] = KeysList[j]

C36_ToggleOnAtFirstNull == [][ToggleOnAtFirstNull]_vars

\* Reached: the list had two null slots and a key after them, and the key
\* path toggled on last stands in the first of the slots.
C36_Witness ==
    /\ LastRun.handler = "rainbow-json.ToggleKeyHighlight"
    /\ LastRun.shown = ""
    /\ \E k \in 1..Len(KeysList) :
          /\ KeysList[k] = Reversed(LastRun.key_path)
          /\ \A j \in 1..(k - 1) : KeysList[j] # NullPath
          /\ \E j \in (k + 1)..Len(KeysList) : KeysList[j] = NullPath
          /\ KeysList[Len(KeysList)] # NullPath

(***************************************************************************)
(* C35.  After any sequence of ToggleKeyHighlight commands on a document   *)
(* its list of keys never holds more than max_num_keys_to_highlight (8)    *)
(* entries nor two entries that are not null with the same path signature; *)
(* a toggle-on that finds no null slot in a list of 8 entries shows an     *)
(* error and leaves the list and the registration of the provider          *)
(* unchanged.                                                              *)
(***************************************************************************)
ListBounded ==
    /\ Len(KeysList) <= max_num_keys_to_highlight
    /\ \A j, k \in 1..Len(KeysList) :
          /\ KeysList[j] # NullPath
          /\ KeysList[k] # NullPath
          /\ get_path_signature(KeysList[j]) = get_path_signature(KeysList[k])
          => j = k

\* The command ran on a key path that the full list does not hold.
ToggleOnFullList ==
    /\ handler_log' # handler_log
    /\ LastRun'.handler = "rainbow-json.ToggleKeyHighlight"
    /\ LastRun'.key_path # NullPath
    /\ fileName # << >>
    /\ PlacesOf(KeysList, ToggledPath) = {}
    /\ NullSlots(KeysList) = {}
    /\ Len(KeysList) = max_num_keys_to_highlight

FullListRefuses ==
    ToggleOnFullList =>
        /\ LastRun'.shown = "Too many keys selected (max 8). Remove some keys first."
        /\ UNCHANGED <<per_doc_reversed_keys_to_highlight, rainbow_token_event,
                       registrations, registrations_made>>

C35_ListBounded == []ListBounded /\ [][FullListRefuses]_vars

\* Reached: the list holds eight keys, none of them null, and the toggle of
\* a ninth key path showed the error.
C35_Witness ==
    /\ LastRun.handler = "rainbow-json.ToggleKeyHighlight"
    /\ LastRun.shown = "Too many keys selected (max 8). Remove some keys first."
    /\ Len(KeysList) = max_num_keys_to_highlight
    /\ NullSlots(KeysList) = {}
    /\ PlacesOf(KeysList, Reversed(LastRun.key_path)) = {}
    /\ registrations = {registrations_made}

(***************************************************************************)
(* C39.  In consume_json_record, for every list of candidate states a      *)
(* frame can hold and every token, at most one candidate handler accepts   *)
(* the token, and a handler that rejects (returns false) leaves the parse  *)
(* stack, every field of every frame and every node unchanged, so that the *)
(* result does not depend on the order of the candidates.                  *)
(***************************************************************************)
\* The six automata states.
AutomataStates ==
    {"expect_key_state", "expect_colon_state", "expect_value_state",
     "expect_comma_state", "expect_object_end_state", "expect_array_end_state"}

\* A token of every kind, and the token the loop stands at.
TokensToTry ==
    {JsonToken(<<"\"", "z", "\"">>, 0, 0, "String"),
     JsonToken(<<"7">>, 0, 0, "Number"),
     JsonToken(<<"n", "u", "l", "l">>, 0, 0, "Constant")}
    \cup {JsonToken(<<c>>, 0, 0, "Punctuation") : c \in {"{", "}", "[", "]", ":", ","}}
    \cup (IF token_idx < Len(tokens) THEN {TokenAt(tokens, token_idx)} ELSE {})

\* The lists of candidate states the handlers and consume_json_record
\* assign to a frame.
CandidateLists ==
    {<<"expect_key_state", "expect_object_end_state">>,
     <<"expect_value_state", "expect_array_end_state">>,
     <<"expect_colon_state">>,
     <<"expect_value_state">>,
     <<"expect_key_state">>,
     <<"expect_comma_state", "expect_object_end_state">>,
     <<"expect_comma_state", "expect_array_end_state">>}

\* The candidates of the list that accept the token.
Accepting(states, token) ==
    {k \in 1..Len(states) : handler_function(states[k], pda_stack, nodes, token).handled}

\* The handler leaves the stack and the nodes as they are.
Untouched(tried) == tried.pda_stack = pda_stack /\ tried.nodes = nodes

\* The frames of the parser are at hand: the loop of consume_json_record
\* stands before a token or has just popped the last frame.
InConsumeLoop == pc = "consume" /\ Len(pda_stack) > 0

C39_OneCandidateAccepts ==
    InConsumeLoop =>
        \A token \in TokensToTry :
            /\ Ctx(pda_stack).current_nfa_states \in CandidateLists
            /\ \A states \in CandidateLists : Cardinality(Accepting(states, token)) <= 1
            /\ \A state \in AutomataStates :
                  ~handler_function(state, pda_stack, nodes, token).handled
                  => Untouched(handler_function(state, pda_stack, nodes, token))
            /\ ~handle_scalar_value(pda_stack, nodes, token).handled
                  => Untouched(handle_scalar_value(pda_stack, nodes, token))
            /\ ~handle_open_brace(pda_stack, nodes, token).handled
                  => Untouched(handle_open_brace(pda_stack, nodes, token))
            /\ ~handle_open_bracket(pda_stack, nodes, token).handled
                  => Untouched(handle_open_bracket(pda_stack, nodes, token))
            /\ TryStates(Reversed(Ctx(pda_stack).current_nfa_states), 1, pda_stack, nodes,
                         token)
                  = TryStates(Ctx(pda_stack).current_nfa_states, 1, pda_stack, nodes, token)

\* Reached: a frame of an array nested in an object waits for a comma or
\* its closing bracket, the next token is the bracket, and the first of
\* the two candidates rejects it.
C39_Witness ==
    /\ InConsumeLoop
    /\ Len(pda_stack) >= 2
    /\ Ctx(pda_stack).current_nfa_states
          = <<"expect_comma_state", "expect_array_end_state">>
    /\ Ctx(pda_stack).current_array_index > 0
    /\ token_idx < Len(tokens)
    /\ bracket_close(TokenAt(tokens, token_idx))
    /\ ~handle_comma(pda_stack, nodes, TokenAt(tokens, token_idx)).handled
    /\ Accepting(Ctx(pda_stack).current_nfa_states, TokenAt(tokens, token_idx)) = {2}

=============================================================================
